---- MODULE Spec2Model ----
(***************************************************************************)
(* A model of the CDP driver `chromatica`: the Connection (request and     *)
(* response correlation, event fan-out), the per-target DOM lock, the      *)
(* target manager's pending-iframe reconciliation and the network          *)
(* manager's Fetch interception.  Every subsystem has its own variables    *)
(* and its own specification; a specification leaves the variables of the  *)
(* other subsystems unchanged.                                             *)
(***************************************************************************)
EXTENDS Integers, Sequences, FiniteSets, TLC

VARIABLES
    \* ---- Connection: requests and responses (connection.rs) ----
    next_id,            \* Connection.next_id (AtomicUsize)
    is_disconnecting,   \* Connection.is_disconnecting (AtomicBool)
    response_waiters,   \* Connection.response_waiters: id -> the caller owning the oneshot
    sender_queue,       \* the unbounded channel behind Connection.sender
    browser_pending,    \* requests written to the socket and not yet answered
    pc,                 \* position of each caller inside Connection::send
    call_id,            \* the id `fetch_add` gave to the caller's current call
    rx,                 \* the oneshot receiver of the call: <<>> or <<response id>>
    rx_closed,          \* the oneshot sender was dropped without a value
    outcome,            \* what the call has returned to its caller so far
    allocated,          \* history: the ids in the order fetch_add handed them out
    disc_pc,            \* position inside Connection::disconnect
    \* ---- Connection: events and subscribers (connection.rs) ----
    wire,               \* history: the events in the order the reader task read them
    dispatched,         \* how many of them the dispatcher task has fanned out
    next_subscriber_id, \* Connection.next_subscriber_id (AtomicUsize)
    event_subscribers,  \* Connection.event_subscribers: id -> [methods, session_ids]
    sub_alive,          \* id -> the consumer still holds the UnboundedReceiver
    sink,               \* id -> the events (wire positions) pushed to the receiver
    sub_at,             \* history: id -> Len(wire) when subscribe returned
    \* ---- DOM queries under the per-target lock (frame_inner.rs, target.rs) ----
    dom_lock,           \* Target.dom_lock of each target: << >> (free) or << holder >>
    dom_pc,             \* position of each task inside its DOM operation
    dom_op,             \* the operation the task runs
    dom_target,         \* the target of the frame the task works on
    \* ---- Target manager (target_manager.rs) ----
    targets,            \* TargetManager.targets: target id -> [init_ok]
    frame_inners,       \* TargetManager.frame_inners: frame id -> FrameInner
    pending_iframes,    \* TargetManager.pending_iframes: the keys (parent id, child id)
    iframe_channel,     \* the mpsc channel of parent ids behind iframe_channel
    browser_targets,    \* the targets alive in the browser whose targetCreated was read
    tm_events,          \* how many target events the event handler has taken
    tm_pc,              \* position of the event handler task
    tm_cur,             \* the target of the event it is handling
    ch_pc,              \* position of the iframe channel handler task
    ch_keys,            \* the keys it collected for the parent id it received
    ch_cur,             \* the key whose target it is initializing
    pending_targets,    \* TargetManager.pending_targets: the target ids with a waiter
    pt_lock,            \* holder of the pending_targets write lock
    create_pc,          \* position of each create_target call
    create_id,          \* the target id the browser gave to the call's request
    create_got,         \* the call's oneshot receiver has been given the target
    \* ---- Network manager (network_manager.rs) ----
    network_handler,    \* NetworkManager.network_handler, the interception flag
    credentials,        \* NetworkManager.credentials is Some
    session_ids,        \* NetworkManager.session_ids
    streams,            \* the RequestStream / ResponseStream values not yet dropped
    ever_intercepted,   \* set_request_interception(true) has been called
    net_count,          \* how many Fetch events the event handler has taken
    net_pc,             \* position of the event handler task
    net_cur,            \* the event it is handling
    handled,            \* request id -> the event the handler took for it
    fetch_commands,     \* the Fetch commands the manager has sent
    request_sent,       \* request ids sent on request_sender
    response_sent,      \* request ids sent on response_sender
    fetch_enabled,      \* the sessions whose Fetch.enable (Target::init) succeeded
    \* ---- wait_for_navigation (frame_inner.rs) ----
    nav_pc,             \* position of the wait_for_navigation call
    nav_arg,            \* its timeout argument: << >> for None, << d >> for Some(d)
    nav_timeout,        \* the timeout it computed at line 358
    nav_target_index,   \* index of the expected event in lifecycle_event_order
    nav_clock,          \* time elapsed since the wait began
    nav_events,         \* how many events its subscription has been given
    nav_result,         \* what the call returned
    nav_wait_until,     \* its waitUntil argument
    nav_subscribed,     \* its event subscription exists
    nav_last,           \* the event its helper task took last
    nav_send,           \* navigate: what became of its Page.navigate request
    nav_final,          \* navigate: what navigate returned
    \* ---- wait_for_selector (frame_inner.rs) and the DOM signal bus ----
    sel_matches,        \* the selector matches an element of the document
    sel_in_flight,      \* DOM-mutation notifications the browser has sent, not yet broadcast
    sel_signals,        \* how many mutations have happened
    sel_main,           \* position of the wait_for_selector call
    sel_helper,         \* position of the helper task it spawned
    sel_pending,        \* signals buffered for the helper's broadcast receiver
    sel_lagged,         \* the receiver has been overrun since its last recv
    sel_result,         \* what the call returned
    \* ---- NetworkManager settings and their replay (network_manager.rs) ----
    nm_session_ids,     \* session_ids of the manager whose settings are modelled
    fetch_registered,   \* sessions added to the manager's event subscriber
    extra_headers,      \* the stored header map
    cache_disabled,     \* the stored cache flag
    bypass_service_worker, \* the stored bypass flag
    wire_headers,       \* per session, the map of the last Network.setExtraHTTPHeaders sent
    wire_cache,         \* per session, the last Network.setCacheDisabled sent
    wire_bypass,        \* per session, the last Network.setBypassServiceWorker sent
    st_pc,              \* position of the setter call in progress
    st_op,              \* which setter
    st_arg,             \* the header map it was given
    st_flag,            \* the flag it was given
    st_done,            \* sessions its loop has visited
    st_late,            \* sessions inserted while its loop runs
    st_calls,           \* setter calls made so far
    st_failed,          \* a setter call has returned an error
    hdr_calls,          \* the header setters that returned Ok, in order
    as_pc,              \* position of the add_session call in progress
    as_sess,            \* its session
    as_headers,         \* converted_headers, as it read them
    \* ---- Frames, handles and target shutdown (target_manager.rs, target.rs, frame_inner.rs) ----
    browser_frames,     \* the child frames attached in the browser
    gone_kind,          \* per target, the event that ended it: none, destroyed or crashed
    shutdown_done,      \* the targets whose Target::shutdown has run
    managers_shut,      \* the top-level targets whose manager event loops were shut down
    held,               \* per target, the Arc<Target> clones held by running operations
    fr_handle,          \* the frame the user holds a Page or Element handle to
    fr_valid,           \* the handle's Weak<FrameInner> still upgrades
    fr_pc,              \* position of the operation called through the handle
    fr_target,          \* the target that operation holds
    fr_result,          \* what the last operation returned
    fr_last,            \* the frame or target event handled last
    \* ---- Query builder (query_builder.rs) ----
    qb_pc,              \* position of the query call
    ps_selector,        \* parse_selector_path: the selector, a sequence of characters
    ps_steps,           \* the steps it returned
    alt_outcomes,       \* parse: what each alternative of the query meets when evaluated
    alt_has_start,      \* QueryBuilder.backend_node_id is Some
    alt_idx,            \* the alternative the loop is at
    alt_called,         \* the alternatives a CDP call was made for
    alt_result,         \* the alternative whose node was returned, 0 for None
    ts_all,             \* find_by_text_everywhere: its all argument
    ts_matches,         \* the targets whose document contains the text
    ts_stack,           \* frames_to_process
    ts_frames,          \* processed_frames
    ts_targets,         \* processed_targets
    ts_order,           \* history: the frames whose document was searched, in order
    ts_nodes,           \* nodes, each named by the frame it was found through
    ts_failed           \* history: a DOM.getDocument of the search failed

connVars == << next_id, is_disconnecting, response_waiters, sender_queue,
               browser_pending, pc, call_id, rx, rx_closed, outcome,
               allocated, disc_pc >>

evVars == << wire, dispatched, next_subscriber_id, event_subscribers, sub_alive,
             sink, sub_at >>

domVars == << dom_lock, dom_pc, dom_op, dom_target >>

createVars == << pending_targets, pt_lock, create_pc, create_id, create_got >>

tmVars == << targets, frame_inners, pending_iframes, iframe_channel,
             browser_targets, tm_events, tm_pc, tm_cur, ch_pc, ch_keys, ch_cur,
             createVars >>

netVars == << network_handler, credentials, session_ids, streams, ever_intercepted,
              net_count, net_pc, net_cur, handled, fetch_commands, request_sent,
              response_sent, fetch_enabled >>

navVars == << nav_pc, nav_arg, nav_timeout, nav_target_index, nav_clock, nav_events,
              nav_result, nav_wait_until, nav_subscribed, nav_last, nav_send,
              nav_final >>

selVars == << sel_matches, sel_in_flight, sel_signals, sel_main, sel_helper,
              sel_pending, sel_lagged, sel_result >>

setVars == << nm_session_ids, fetch_registered, extra_headers, cache_disabled,
              bypass_service_worker, wire_headers, wire_cache, wire_bypass, st_pc,
              st_op, st_arg, st_flag, st_done, st_late, st_calls, st_failed,
              hdr_calls, as_pc, as_sess, as_headers >>

frVars == << browser_frames, gone_kind, shutdown_done, managers_shut, held,
             fr_handle, fr_valid, fr_pc, fr_target, fr_result, fr_last >>

qbVars == << qb_pc, ps_selector, ps_steps, alt_outcomes, alt_has_start, alt_idx, alt_called, alt_result, ts_all, ts_matches, ts_stack, ts_frames, ts_targets, ts_order, ts_nodes, ts_failed >>

vars == << connVars, evVars, domVars, tmVars, netVars, navVars, selVars, setVars, frVars, qbVars >>

\* What the actions of one subsystem leave alone: the other subsystems.
notConn == << evVars, domVars, tmVars, netVars, navVars, selVars, setVars, frVars, qbVars >>
notEvents == << connVars, domVars, tmVars, netVars, navVars, selVars, setVars, frVars, qbVars >>
notDom == << connVars, evVars, tmVars, netVars, navVars, selVars, setVars, frVars, qbVars >>
notTargets == << connVars, evVars, domVars, netVars, navVars, selVars, setVars, frVars, qbVars >>
notNet == << connVars, evVars, domVars, tmVars, navVars, selVars, setVars, frVars, qbVars >>
notNav == << connVars, evVars, domVars, tmVars, netVars, selVars, setVars, frVars, qbVars >>
notSel == << connVars, evVars, domVars, tmVars, netVars, navVars, setVars, frVars, qbVars >>
notSettings == << connVars, evVars, domVars, tmVars, netVars, navVars, selVars, frVars, qbVars >>
notTargetsOrFrames == << connVars, evVars, domVars, netVars, navVars, selVars, setVars, qbVars >>
notFrames == << connVars, evVars, domVars, tmVars, netVars, navVars, selVars, setVars, qbVars >>
notQuery == << connVars, evVars, domVars, tmVars, netVars, navVars, selVars, setVars, frVars >>

-----------------------------------------------------------------------------
(* Bounds of the model *)
NumCallers == 2
MaxRequests == 2

MaxEvents == 2
MaxSubscribers == 1

NumDomTasks == 2
MaxTargetEvents == 4
MaxPaused == 2
NumConsumers == 1
DefaultTimeoutTicks == 2
MaxTicks == 3
MaxNavEvents == 2
MaxSignals == 2
BusCapacity == 1
MaxSetterCalls == 2
MaxSelectorLen == 5
MaxAlternatives == 3

Callers == 1..NumCallers
DomTasks == 1..NumDomTasks
DomTargets == {"page1", "page2"}
DomOps == {"query_selector", "query_selector_all", "get_attributes"}

NetSessions == {"s1"}
Consumers == 1..NumConsumers
Waiters == {"frame"}

\* The tasks that call create_target.
CreateCallers == {"caller"}

\* The browser's targets: a page, an out-of-process iframe in it, and an
\* out-of-process iframe nested in that one.  ParentOf is frame_tree.frame.parent_id.
TargetIds == {"page", "frameA", "frameB"}
TargetType == [page |-> "page", frameA |-> "iframe", frameB |-> "iframe"]
ParentOf == [page |-> << >>, frameA |-> << "page" >>, frameB |-> << "frameA" >>]

\* Event methods, the session ids a subscriber filters on, and the sessions an
\* event may carry: << >> (no sessionId on the wire) or << sid >>.
Methods == {"Fetch.requestPaused", "Page.frameAttached"}
Sessions == {"s1"}
EventSessions == {<< >>, << "s1" >>, << "s2" >>}
\* The events the browser sends in the model: every session case for the first
\* method, and the second method on a subscribed session.
EventKinds ==
    {[method |-> "Fetch.requestPaused", session |-> sess] : sess \in EventSessions}
      \cup {[method |-> "Page.frameAttached", session |-> << "s1" >>]}

-----------------------------------------------------------------------------
(* Helpers on the waiters map (a DashMap<usize, oneshot::Sender>) *)

EmptyMap == [k \in {} |-> "none"]

MapInsert(m, k, v) == [x \in (DOMAIN m) \cup {k} |-> IF x = k THEN v ELSE m[x]]

MapRemove(m, k) == [x \in (DOMAIN m) \ {k} |-> m[x]]

MapRange(m) == {m[k] : k \in DOMAIN m}

SetMin(S) == CHOOSE x \in S : \A y \in S : x <= y

-----------------------------------------------------------------------------
(* Connection::connect: the state of a fresh connection *)
InitConn ==
    /\ next_id = 0
    /\ is_disconnecting = FALSE
    /\ response_waiters = EmptyMap
    /\ sender_queue = << >>
    /\ browser_pending = {}
    /\ pc = [c \in Callers |-> "idle"]
    /\ call_id = [c \in Callers |-> << >>]
    /\ rx = [c \in Callers |-> << >>]
    /\ rx_closed = [c \in Callers |-> FALSE]
    /\ outcome = [c \in Callers |-> << >>]
    /\ allocated = << >>
    /\ disc_pc = "idle"

\* The reader, writer and dispatcher tasks run until disconnect aborts them.
TasksAlive == disc_pc # "done"

\* Calls that passed the disconnecting check and have not taken their id yet.
InAlloc == {c \in Callers : pc[c] = "alloc"}

CheckSkipped(flag) == FALSE

\* send, line 418: is_disconnecting.load(SeqCst) decides whether the call is
\* turned away.
CheckDisconnecting(flag) == flag

\* send, lines 418-420: the disconnecting check.
SendCheck(c) ==
    /\ pc[c] = "idle"
    /\ Len(allocated) + Cardinality(InAlloc) < MaxRequests
    /\ IF CheckDisconnecting(is_disconnecting)
          THEN /\ pc' = [pc EXCEPT ![c] = "done"]
               /\ outcome' = [outcome EXCEPT ![c] = Append(@, [kind |-> "disconnecting", resp |-> << >>])]
          ELSE /\ pc' = [pc EXCEPT ![c] = "alloc"]
               /\ UNCHANGED outcome
    /\ call_id' = [call_id EXCEPT ![c] = << >>]
    /\ rx' = [rx EXCEPT ![c] = << >>]
    /\ rx_closed' = [rx_closed EXCEPT ![c] = FALSE]
    /\ UNCHANGED notConn
    /\ UNCHANGED << next_id, is_disconnecting, response_waiters, sender_queue,
                    browser_pending, allocated, disc_pc >>

FetchAddStale(n) == n

\* The value fetch_add(1) leaves in next_id.
FetchAddNext(n) == n + 1

\* send, line 421: id = next_id.fetch_add(1), one atomic step.
SendAlloc(c) ==
    /\ pc[c] = "alloc"
    /\ call_id' = [call_id EXCEPT ![c] = << next_id >>]
    /\ allocated' = Append(allocated, next_id)
    /\ next_id' = FetchAddNext(next_id)
    /\ pc' = [pc EXCEPT ![c] = "register"]
    /\ UNCHANGED notConn
    /\ UNCHANGED << is_disconnecting, response_waiters, sender_queue,
                    browser_pending, rx, rx_closed, outcome, disc_pc >>

\* send, lines 431-434: the oneshot is created and its sender stored under id.
\* An insert over an existing key drops the sender that was there.
SendRegister(c) ==
    /\ pc[c] = "register"
    /\ LET id == call_id[c][1]
           old == IF id \in DOMAIN response_waiters THEN {response_waiters[id]} ELSE {}
       IN /\ response_waiters' = MapInsert(response_waiters, id, c)
          /\ rx_closed' = [d \in Callers |-> IF d \in old /\ d # c /\ rx[d] = << >>
                                               THEN TRUE ELSE rx_closed[d]]
    /\ pc' = [pc EXCEPT ![c] = "enqueue"]
    /\ UNCHANGED notConn
    /\ UNCHANGED << next_id, is_disconnecting, sender_queue, browser_pending,
                    call_id, rx, outcome, allocated, disc_pc >>

\* send, lines 436-439: the serialized request goes to the writer's queue.
SendEnqueue(c) ==
    /\ pc[c] = "enqueue"
    /\ sender_queue' = Append(sender_queue, call_id[c][1])
    /\ pc' = [pc EXCEPT ![c] = "await"]
    /\ UNCHANGED notConn
    /\ UNCHANGED << next_id, is_disconnecting, response_waiters, browser_pending,
                    call_id, rx, rx_closed, outcome, allocated, disc_pc >>

\* send, line 441: the oneshot yields the response.
SendAwaitResponse(c) ==
    /\ pc[c] = "await"
    /\ rx[c] # << >>
    /\ outcome' = [outcome EXCEPT ![c] = Append(@, [kind |-> "response", resp |-> rx[c]])]
    /\ pc' = [pc EXCEPT ![c] = "done"]
    /\ UNCHANGED notConn
    /\ UNCHANGED << next_id, is_disconnecting, response_waiters, sender_queue,
                    browser_pending, call_id, rx, rx_closed, allocated, disc_pc >>

\* send, line 442: the oneshot sender was dropped (the waiters were cleared).
SendAwaitClosed(c) ==
    /\ pc[c] = "await"
    /\ rx[c] = << >>
    /\ rx_closed[c]
    /\ outcome' = [outcome EXCEPT ![c] = Append(@, [kind |-> "closed", resp |-> << >>])]
    /\ pc' = [pc EXCEPT ![c] = "done"]
    /\ UNCHANGED notConn
    /\ UNCHANGED << next_id, is_disconnecting, response_waiters, sender_queue,
                    browser_pending, call_id, rx, rx_closed, allocated, disc_pc >>

\* send, line 443: the 30 s timer fires while the oneshot is still pending.
SendTimeoutFire(c) ==
    /\ pc[c] = "await"
    /\ rx[c] = << >>
    /\ ~rx_closed[c]
    /\ pc' = [pc EXCEPT ![c] = "timedout"]
    /\ UNCHANGED notConn
    /\ UNCHANGED << next_id, is_disconnecting, response_waiters, sender_queue,
                    browser_pending, call_id, rx, rx_closed, outcome, allocated,
                    disc_pc >>

\* send, lines 444-445: the waiter entry is removed and the error returned.
SendTimeoutRemove(c) ==
    /\ pc[c] = "timedout"
    /\ response_waiters' = MapRemove(response_waiters, call_id[c][1])
    /\ outcome' = [outcome EXCEPT ![c] = Append(@, [kind |-> "timeout", resp |-> << >>])]
    /\ pc' = [pc EXCEPT ![c] = "done"]
    /\ UNCHANGED notConn
    /\ UNCHANGED << next_id, is_disconnecting, sender_queue, browser_pending,
                    call_id, rx, rx_closed, allocated, disc_pc >>

\* The caller takes the result; it may call send again.
SendReturn(c) ==
    /\ pc[c] = "done"
    /\ pc' = [pc EXCEPT ![c] = "idle"]
    /\ outcome' = [outcome EXCEPT ![c] = << >>]
    /\ UNCHANGED notConn
    /\ UNCHANGED << next_id, is_disconnecting, response_waiters, sender_queue,
                    browser_pending, call_id, rx, rx_closed, allocated, disc_pc >>

\* The writer task, lines 288-295: one queued request is written to the socket.
WriterSend ==
    /\ TasksAlive
    /\ sender_queue # << >>
    /\ browser_pending' = browser_pending \cup {Head(sender_queue)}
    /\ sender_queue' = Tail(sender_queue)
    /\ UNCHANGED notConn
    /\ UNCHANGED << next_id, is_disconnecting, response_waiters, pc, call_id,
                    rx, rx_closed, outcome, allocated, disc_pc >>

WaiterKeyOldest(waiters, id) ==
    IF DOMAIN waiters = {} THEN id ELSE SetMin(DOMAIN waiters)

\* The key the reader task looks up for a response: response.id.
WaiterKey(waiters, id) == id

\* The reader task, lines 371-377: the browser answers any request it holds,
\* in any order; the waiter stored under the response's id gets it.
ReaderResponse(id) ==
    /\ TasksAlive
    /\ id \in browser_pending
    /\ browser_pending' = browser_pending \ {id}
    /\ LET k == WaiterKey(response_waiters, id)
       IN IF k \in DOMAIN response_waiters
             THEN /\ response_waiters' = MapRemove(response_waiters, k)
                  /\ rx' = [rx EXCEPT ![response_waiters[k]] = << id >>]
             ELSE UNCHANGED << response_waiters, rx >>
    /\ UNCHANGED notConn
    /\ UNCHANGED << next_id, is_disconnecting, sender_queue, pc, call_id,
                    rx_closed, outcome, allocated, disc_pc >>

\* disconnect, line 471.
DisconnectStart ==
    /\ disc_pc = "idle"
    /\ is_disconnecting' = TRUE
    /\ disc_pc' = "wait"
    /\ UNCHANGED notConn
    /\ UNCHANGED << next_id, response_waiters, sender_queue, browser_pending,
                    pc, call_id, rx, rx_closed, outcome, allocated >>

\* disconnect, lines 473-481: the waiters map was seen empty within 3 s.
DisconnectDrained ==
    /\ disc_pc = "wait"
    /\ DOMAIN response_waiters = {}
    /\ disc_pc' = "abort"
    /\ UNCHANGED notConn
    /\ UNCHANGED << next_id, is_disconnecting, response_waiters, sender_queue,
                    browser_pending, pc, call_id, rx, rx_closed, outcome,
                    allocated >>

\* disconnect, lines 482-484: the grace period ran out; clear() drops every sender.
DisconnectGrace ==
    /\ disc_pc = "wait"
    /\ DOMAIN response_waiters # {}
    /\ rx_closed' = [d \in Callers |-> IF d \in MapRange(response_waiters) /\ rx[d] = << >>
                                         THEN TRUE ELSE rx_closed[d]]
    /\ response_waiters' = EmptyMap
    /\ disc_pc' = "abort"
    /\ UNCHANGED notConn
    /\ UNCHANGED << next_id, is_disconnecting, sender_queue, browser_pending,
                    pc, call_id, rx, outcome, allocated >>

\* disconnect, lines 487-498: the three tasks are aborted.
DisconnectAbort ==
    /\ disc_pc = "abort"
    /\ disc_pc' = "done"
    /\ UNCHANGED notConn
    /\ UNCHANGED << next_id, is_disconnecting, response_waiters, sender_queue,
                    browser_pending, pc, call_id, rx, rx_closed, outcome,
                    allocated >>

NextConn ==
    \/ \E c \in Callers : SendCheck(c)
    \/ \E c \in Callers : SendAlloc(c)
    \/ \E c \in Callers : SendRegister(c)
    \/ \E c \in Callers : SendEnqueue(c)
    \/ \E c \in Callers : SendAwaitResponse(c)
    \/ \E c \in Callers : SendAwaitClosed(c)
    \/ \E c \in Callers : SendTimeoutFire(c)
    \/ \E c \in Callers : SendTimeoutRemove(c)
    \/ \E c \in Callers : SendReturn(c)
    \/ WriterSend
    \/ \E id \in browser_pending : ReaderResponse(id)
    \/ DisconnectStart
    \/ DisconnectDrained
    \/ DisconnectGrace
    \/ DisconnectAbort


-----------------------------------------------------------------------------
(* Connection: the reader's event branch, the dispatcher task, subscribe *)

InitEvents ==
    /\ wire = << >>
    /\ dispatched = 0
    /\ next_subscriber_id = 0
    /\ event_subscribers = EmptyMap
    /\ sub_alive = EmptyMap
    /\ sink = EmptyMap
    /\ sub_at = EmptyMap

\* The dispatcher's channel: the events read and not yet fanned out.
event_queue == [i \in 1..(Len(wire) - dispatched) |-> dispatched + i]

\* The reader task, lines 378-383: an event is read and queued for the dispatcher.
ReaderEvent(e) ==
    /\ TasksAlive
    /\ Len(wire) < MaxEvents
    /\ wire' = Append(wire, e)
    /\ UNCHANGED notEvents
    /\ UNCHANGED << dispatched, next_subscriber_id, event_subscribers, sub_alive,
                    sink, sub_at >>

DeliversEmptyMeansAll(sub, e) ==
    /\ (sub.methods = {} \/ e.method \in sub.methods)
    /\ ~ ( /\ e.session # << >>
           /\ sub.session_ids # {}
           /\ e.session[1] \notin sub.session_ids )

\* EventSubscriber::send, lines 210-217: whether the event goes on to tx.send.
Delivers(sub, e) ==
    /\ e.method \in sub.methods
    /\ ~ ( /\ e.session # << >>
           /\ sub.session_ids # {}
           /\ e.session[1] \notin sub.session_ids )

\* The dispatcher task, lines 299-343: the next event is offered to every
\* subscriber; those whose tx.send failed (receiver dropped) are unsubscribed.
Dispatch ==
    /\ TasksAlive
    /\ event_queue # << >>
    /\ LET i == Head(event_queue)
           e == wire[i]
           hit == {s \in DOMAIN event_subscribers : Delivers(event_subscribers[s], e)}
           dead == {s \in hit : ~sub_alive[s]}
       IN /\ sink' = [s \in DOMAIN sink |->
                        IF s \in hit /\ sub_alive[s] THEN Append(sink[s], i) ELSE sink[s]]
          /\ event_subscribers' = [s \in (DOMAIN event_subscribers) \ dead |->
                                      event_subscribers[s]]
    /\ dispatched' = dispatched + 1
    /\ UNCHANGED notEvents
    /\ UNCHANGED << wire, next_subscriber_id, sub_alive, sub_at >>

\* Connection::subscribe, lines 450-464.
Subscribe(ms, ss) ==
    /\ next_subscriber_id < MaxSubscribers
    /\ LET id == next_subscriber_id
       IN /\ event_subscribers' = MapInsert(event_subscribers, id,
                                            [methods |-> ms, session_ids |-> ss])
          /\ sub_alive' = MapInsert(sub_alive, id, TRUE)
          /\ sink' = MapInsert(sink, id, << >>)
          /\ sub_at' = MapInsert(sub_at, id, Len(wire))
    /\ next_subscriber_id' = next_subscriber_id + 1
    /\ UNCHANGED notEvents
    /\ UNCHANGED << wire, dispatched >>

\* The consumer drops the UnboundedReceiver it got from subscribe.
DropReceiver(s) ==
    /\ s \in DOMAIN sub_alive
    /\ sub_alive[s]
    /\ sub_alive' = [sub_alive EXCEPT ![s] = FALSE]
    /\ UNCHANGED notEvents
    /\ UNCHANGED << wire, dispatched, next_subscriber_id, event_subscribers, sink,
                    sub_at >>

\* disconnect, lines 470-499, called while no send is waiting: the flag is
\* set, the waiters map is seen empty and the three tasks are aborted.  The
\* subscribers map is not touched.
DisconnectNoWaiters ==
    /\ disc_pc = "idle"
    /\ DOMAIN response_waiters = {}
    /\ is_disconnecting' = TRUE
    /\ disc_pc' = "done"
    /\ UNCHANGED << domVars, tmVars, netVars, navVars, selVars, setVars, frVars, qbVars >>
    /\ UNCHANGED evVars
    /\ UNCHANGED << next_id, response_waiters, sender_queue, browser_pending,
                    pc, call_id, rx, rx_closed, outcome, allocated >>

NextEvents ==
    \/ \E e \in EventKinds : ReaderEvent(e)
    \/ DisconnectNoWaiters
    \/ Dispatch
    \/ \E ms \in SUBSET Methods, ss \in SUBSET Sessions : Subscribe(ms, ss)
    \/ \E s \in 0..(MaxSubscribers - 1) : DropReceiver(s)

-----------------------------------------------------------------------------
(* FrameInner: DOM queries and the per-target DOM lock *)

InitDom ==
    /\ dom_lock = [t \in DomTargets |-> << >>]
    /\ dom_pc = [k \in DomTasks |-> "idle"]
    /\ dom_op = [k \in DomTasks |-> "none"]
    /\ dom_target = [k \in DomTasks |-> "none"]

\* A task calls query_selector, query_selector_all or get_attributes on a frame
\* of target t.
DomCall(k, op, t) ==
    /\ dom_pc[k] = "idle"
    /\ dom_pc' = [dom_pc EXCEPT ![k] = "lock"]
    /\ dom_op' = [dom_op EXCEPT ![k] = op]
    /\ dom_target' = [dom_target EXCEPT ![k] = t]
    /\ UNCHANGED notDom
    /\ UNCHANGED dom_lock

\* query_selector line 582, query_selector_all line 603:
\*     let _ = self.dom_lock().await.lock().await;
\* The mutex is acquired, and the guard, bound to the pattern `_`, is dropped
\* at the end of the statement: the lock is free again when the query starts.
QueryLockAndDrop(k) ==
    /\ dom_pc[k] = "lock"
    /\ dom_op[k] \in {"query_selector", "query_selector_all"}
    /\ dom_lock[dom_target[k]] = << >>
    /\ dom_pc' = [dom_pc EXCEPT ![k] = "document"]
    /\ UNCHANGED notDom
    /\ UNCHANGED << dom_lock, dom_op, dom_target >>

\* query_selector_all lines 604-609 (DOM.getDocument) and QueryBuilder::parse
\* (frame_inner.node(0)): the start node is fetched.
QueryDocument(k) ==
    /\ dom_pc[k] = "document"
    /\ dom_pc' = [dom_pc EXCEPT ![k] = "bind"]
    /\ UNCHANGED notDom
    /\ UNCHANGED << dom_lock, dom_op, dom_target >>

\* get_attributes lines 870-871: the guard is bound to `lock` and lives on.
AttributesLock(k) ==
    /\ dom_pc[k] = "lock"
    /\ dom_op[k] = "get_attributes"
    /\ dom_lock[dom_target[k]] = << >>
    /\ dom_lock' = [dom_lock EXCEPT ![dom_target[k]] = << k >>]
    /\ dom_pc' = [dom_pc EXCEPT ![k] = "bind"]
    /\ UNCHANGED notDom
    /\ UNCHANGED << dom_op, dom_target >>

\* bound_node, lines 246-258: DOM.pushNodesByBackendIdsToFrontend returned the
\* NodeId.
DomBind(k) ==
    /\ dom_pc[k] = "bind"
    /\ dom_pc' = [dom_pc EXCEPT ![k] = "bound"]
    /\ UNCHANGED notDom
    /\ UNCHANGED << dom_lock, dom_op, dom_target >>

\* DOM.querySelector / querySelectorAll (query_builder.rs lines 344-355 and
\* 391-401) or DOM.getAttributes (frame_inner.rs lines 873-875) returned.
DomQuery(k) ==
    /\ dom_pc[k] = "bound"
    /\ dom_pc' = [dom_pc EXCEPT ![k] = "queried"]
    /\ UNCHANGED notDom
    /\ UNCHANGED << dom_lock, dom_op, dom_target >>

\* get_attributes line 876: drop(lock); the queries just return.
DomReturn(k) ==
    /\ dom_pc[k] = "queried"
    /\ dom_lock' = [t \in DomTargets |-> IF dom_lock[t] = << k >> THEN << >> ELSE dom_lock[t]]
    /\ dom_pc' = [dom_pc EXCEPT ![k] = "idle"]
    /\ dom_op' = [dom_op EXCEPT ![k] = "none"]
    /\ dom_target' = [dom_target EXCEPT ![k] = "none"]
    /\ UNCHANGED notDom

NextDom ==
    \/ \E k \in DomTasks, op \in DomOps, t \in DomTargets : DomCall(k, op, t)
    \/ \E k \in DomTasks : QueryLockAndDrop(k)
    \/ \E k \in DomTasks : QueryDocument(k)
    \/ \E k \in DomTasks : AttributesLock(k)
    \/ \E k \in DomTasks : DomBind(k)
    \/ \E k \in DomTasks : DomQuery(k)
    \/ \E k \in DomTasks : DomReturn(k)

-----------------------------------------------------------------------------
(* TargetManager: target events and the pending-iframe reconciliation *)

InitTargets ==
    /\ targets = EmptyMap
    /\ frame_inners = EmptyMap
    /\ pending_iframes = {}
    /\ iframe_channel = << >>
    /\ browser_targets = {}
    /\ tm_events = 0
    /\ tm_pc = "idle"
    /\ tm_cur = "none"
    /\ ch_pc = "idle"
    /\ ch_keys = {}
    /\ ch_cur = << >>
    /\ pending_targets = {}
    /\ pt_lock = << >>
    /\ create_pc = [c \in CreateCallers |-> "idle"]
    /\ create_id = [c \in CreateCallers |-> "none"]
    /\ create_got = [c \in CreateCallers |-> FALSE]

\* FrameInner::new, frame_inner.rs lines 56-71.
NewFrameInner(target, parent) ==
    [target |-> target, parent_frame_id |-> parent, child_frame_ids |-> {},
     backend_node_id |-> FALSE]

\* FrameInner::init_as_target, frame_inner.rs lines 73-78.
InitAsTarget(frame, target) ==
    [frame EXCEPT !.target = target, !.backend_node_id = FALSE]

\* FrameInner::add_child_frame on the frame stored under `parent`, if there is one
\* (target_manager.rs lines 432-438).
AddChildFrame(frames, parent, child) ==
    IF parent \in DOMAIN frames
       THEN [frames EXCEPT ![parent].child_frame_ids = @ \cup {child}]
       ELSE frames

\* FrameInner::remove_child_frame on the parent frame of `child`, then the removal
\* of child's own frame (target_manager.rs lines 501-516).
RemoveFrame(frames, child) ==
    IF child \notin DOMAIN frames
       THEN frames
       ELSE LET par == frames[child].parent_frame_id
                unlinked == IF par # << >> /\ par[1] \in DOMAIN frames
                               THEN [frames EXCEPT ![par[1]].child_frame_ids = @ \ {child}]
                               ELSE frames
            IN MapRemove(unlinked, child)

\* The event handler takes a Target.targetCreated event, lines 136-142 and
\* 328-389: attachToTarget, Page.enable and Page.getFrameTree are awaited.
\* The browser does not reuse target ids: an id a create_target call has just
\* been given the target for does not name a new target.
OnTargetCreatedStart(t) ==
    /\ tm_pc = "idle"
    /\ tm_events < MaxTargetEvents
    /\ t \notin browser_targets
    /\ \A c \in CreateCallers : ~(create_id[c] = t /\ create_got[c])
    /\ browser_targets' = browser_targets \cup {t}
    /\ tm_events' = tm_events + 1
    /\ tm_pc' = "attach"
    /\ tm_cur' = t
    /\ UNCHANGED notTargets
    /\ UNCHANGED createVars
    /\ UNCHANGED << targets, frame_inners, pending_iframes, iframe_channel,
                    ch_pc, ch_keys, ch_cur >>

\* Lines 350-389: one of the three requests failed; the event is given up.
OnTargetCreatedAttachFailed ==
    /\ tm_pc = "attach"
    /\ tm_pc' = "idle"
    /\ tm_cur' = "none"
    /\ UNCHANGED notTargets
    /\ UNCHANGED createVars
    /\ UNCHANGED << targets, frame_inners, pending_iframes, iframe_channel,
                    browser_targets, tm_events, ch_pc, ch_keys, ch_cur >>

\* Lines 392-446: the frame tree arrived; an iframe whose parent target is not
\* in the index is parked, every other target goes on to add_target.
OnTargetCreatedCheck ==
    /\ tm_pc = "attach"
    /\ IF TargetType[tm_cur] = "iframe" /\ ParentOf[tm_cur][1] \notin DOMAIN targets
          THEN /\ pending_iframes' = pending_iframes \cup {<< ParentOf[tm_cur][1], tm_cur >>}
               /\ tm_pc' = "idle"
               /\ tm_cur' = "none"
          ELSE /\ tm_pc' = "init"
               /\ UNCHANGED << pending_iframes, tm_cur >>
    /\ UNCHANGED notTargets
    /\ UNCHANGED createVars
    /\ UNCHANGED << targets, frame_inners, iframe_channel, browser_targets,
                    tm_events, ch_pc, ch_keys, ch_cur >>

\* add_target, lines 68-74, with the rest of on_target_created, lines 410-458:
\* Target::init returned (its result is dropped), the target enters the index,
\* its id is sent to the iframe channel and its frame is linked.
OnTargetCreatedAdd(ok) ==
    /\ tm_pc = "init"
    /\ targets' = MapInsert(targets, tm_cur, [init_ok |-> ok])
    /\ iframe_channel' = Append(iframe_channel, tm_cur)
    /\ frame_inners' =
          IF TargetType[tm_cur] = "iframe"
             THEN LET own == IF tm_cur \in DOMAIN frame_inners
                                THEN [frame_inners EXCEPT ![tm_cur] = InitAsTarget(@, tm_cur)]
                                ELSE MapInsert(frame_inners, tm_cur,
                                               NewFrameInner(tm_cur, ParentOf[tm_cur]))
                  IN AddChildFrame(own, ParentOf[tm_cur][1], tm_cur)
             ELSE MapInsert(frame_inners, tm_cur, NewFrameInner(tm_cur, << >>))
    /\ IF TargetType[tm_cur] = "iframe"
          THEN tm_pc' = "idle" /\ tm_cur' = "none"
          ELSE tm_pc' = "waiter" /\ UNCHANGED tm_cur
    /\ UNCHANGED notTargets
    /\ UNCHANGED createVars
    /\ UNCHANGED << pending_iframes, browser_targets, tm_events, ch_pc, ch_keys,
                    ch_cur >>

\* on_target_created, lines 454-457: the pending_targets write lock is taken;
\* if the target has a waiter it is removed and given the target.
OnTargetCreatedWaiter ==
    /\ tm_pc = "waiter"
    /\ pt_lock = << >>
    /\ pending_targets' = pending_targets \ {tm_cur}
    /\ create_got' = [c \in CreateCallers |->
                        IF tm_cur \in pending_targets /\ create_id[c] = tm_cur
                           /\ create_pc[c] = "waiting"
                           THEN TRUE ELSE create_got[c]]
    /\ tm_pc' = "idle"
    /\ tm_cur' = "none"
    /\ UNCHANGED notTargets
    /\ UNCHANGED << targets, frame_inners, pending_iframes, iframe_channel,
                    browser_targets, tm_events, ch_pc, ch_keys, ch_cur >>
    /\ UNCHANGED << pt_lock, create_pc, create_id >>

\* The targets a Target.createTarget request can produce.
PageIds == {t \in TargetIds : TargetType[t] = "page"}

LockDroppedBeforeRequest(c) == << >>

\* The holder of the pending_targets write lock while Target.createTarget is
\* awaited: the guard taken at line 565 lives until the drop at line 590.
LockDuringRequest(c) == << c >>

\* create_target, lines 559-573: the write lock is taken and the request is
\* sent; the browser makes target t.
CreateTargetSend(c, t) ==
    /\ create_pc[c] = "idle"
    /\ pt_lock = << >>
    /\ t \notin browser_targets
    /\ \A d \in CreateCallers : create_id[d] # t
    /\ pt_lock' = LockDuringRequest(c)
    /\ create_pc' = [create_pc EXCEPT ![c] = "sent"]
    /\ create_id' = [create_id EXCEPT ![c] = t]
    /\ UNCHANGED notTargets
    /\ UNCHANGED << targets, frame_inners, pending_iframes, iframe_channel,
                    browser_targets, tm_events, tm_pc, tm_cur, ch_pc, ch_keys, ch_cur >>
    /\ UNCHANGED << pending_targets, create_got >>

\* Lines 574-590: the response carries the target id; the waiter is inserted
\* and the lock is dropped.
CreateTargetResponse(c) ==
    /\ create_pc[c] = "sent"
    /\ pt_lock = LockDuringRequest(c)
    /\ pending_targets' = pending_targets \cup {create_id[c]}
    /\ pt_lock' = << >>
    /\ create_pc' = [create_pc EXCEPT ![c] = "waiting"]
    /\ UNCHANGED notTargets
    /\ UNCHANGED << targets, frame_inners, pending_iframes, iframe_channel,
                    browser_targets, tm_events, tm_pc, tm_cur, ch_pc, ch_keys, ch_cur >>
    /\ UNCHANGED << create_id, create_got >>

\* Lines 575-587: the request failed (send error or protocol error); the
\* call returns the error and the lock guard is dropped with it.
CreateTargetFailed(c) ==
    /\ create_pc[c] = "sent"
    /\ pt_lock' = IF pt_lock = << c >> THEN << >> ELSE pt_lock
    /\ create_pc' = [create_pc EXCEPT ![c] = "idle"]
    /\ create_id' = [create_id EXCEPT ![c] = "none"]
    /\ UNCHANGED notTargets
    /\ UNCHANGED << targets, frame_inners, pending_iframes, iframe_channel,
                    browser_targets, tm_events, tm_pc, tm_cur, ch_pc, ch_keys, ch_cur >>
    /\ UNCHANGED << pending_targets, create_got >>

\* Lines 592-600: the oneshot receiver yields the target and the call returns.
CreateTargetReturn(c) ==
    /\ create_pc[c] = "waiting"
    /\ create_got[c]
    /\ create_pc' = [create_pc EXCEPT ![c] = "idle"]
    /\ create_id' = [create_id EXCEPT ![c] = "none"]
    /\ create_got' = [create_got EXCEPT ![c] = FALSE]
    /\ UNCHANGED notTargets
    /\ UNCHANGED << targets, frame_inners, pending_iframes, iframe_channel,
                    browser_targets, tm_events, tm_pc, tm_cur, ch_pc, ch_keys, ch_cur >>
    /\ UNCHANGED << pending_targets, pt_lock >>

\* on_target_destroyed / on_target_crashed, lines 498-548.
OnTargetDestroyed(t) ==
    /\ tm_pc = "idle"
    /\ tm_events < MaxTargetEvents
    /\ t \in browser_targets
    /\ browser_targets' = browser_targets \ {t}
    /\ tm_events' = tm_events + 1
    /\ IF t \in DOMAIN targets
          THEN /\ targets' = MapRemove(targets, t)
               /\ frame_inners' = RemoveFrame(frame_inners, t)
          ELSE UNCHANGED << targets, frame_inners >>
    /\ UNCHANGED notTargets
    /\ UNCHANGED createVars
    /\ UNCHANGED << pending_iframes, iframe_channel, tm_pc, tm_cur, ch_pc,
                    ch_keys, ch_cur >>

\* The keys the channel handler collects for a parent id, lines 199-207.
KeysFor(parent) == {k \in pending_iframes : k[1] = parent}

\* The channel handler receives a parent id, lines 193-207.
ChannelRecv ==
    /\ ch_pc = "idle"
    /\ iframe_channel # << >>
    /\ ch_keys' = KeysFor(Head(iframe_channel))
    /\ iframe_channel' = Tail(iframe_channel)
    /\ ch_pc' = "keys"
    /\ UNCHANGED notTargets
    /\ UNCHANGED createVars
    /\ UNCHANGED << targets, frame_inners, pending_iframes, browser_targets,
                    tm_events, tm_pc, tm_cur, ch_cur >>

\* Lines 209-212: the next key is removed from pending_iframes, the parent
\* target is looked up (unwrap: the task panics if it is gone) and
\* Target::init is awaited.
ChannelTake(key) ==
    /\ ch_pc = "keys"
    /\ key \in ch_keys
    /\ ch_keys' = ch_keys \ {key}
    /\ IF key \in pending_iframes
          THEN /\ pending_iframes' = pending_iframes \ {key}
               /\ IF key[1] \in DOMAIN targets
                     THEN ch_pc' = "init" /\ ch_cur' = key
                     ELSE ch_pc' = "panicked" /\ ch_cur' = << >>
          ELSE UNCHANGED << pending_iframes, ch_pc, ch_cur >>
    /\ UNCHANGED notTargets
    /\ UNCHANGED createVars
    /\ UNCHANGED << targets, frame_inners, iframe_channel, browser_targets,
                    tm_events, tm_pc, tm_cur >>

\* Lines 212-238: Target::init returned (result dropped); the child's frame is
\* rebound or created and linked to the parent's frame (unwrap: the task
\* panics if the parent has no frame), and the child enters the index.
\* Nothing is sent to the iframe channel for the child.
ChannelAttach(ok) ==
    /\ ch_pc = "init"
    /\ LET parent == ch_cur[1]
           child == ch_cur[2]
       IN IF child \in DOMAIN frame_inners
             THEN /\ frame_inners' = [frame_inners EXCEPT ![child] = InitAsTarget(@, child)]
                  /\ targets' = MapInsert(targets, child, [init_ok |-> ok])
                  /\ UNCHANGED iframe_channel
                  /\ ch_pc' = "keys"
             ELSE IF parent \in DOMAIN frame_inners
                     THEN /\ frame_inners' =
                               MapInsert(AddChildFrame(frame_inners, parent, child), child,
                                         NewFrameInner(child, << parent >>))
                          /\ targets' = MapInsert(targets, child, [init_ok |-> ok])
                          /\ UNCHANGED iframe_channel
                          /\ ch_pc' = "keys"
                     ELSE /\ ch_pc' = "panicked"
                          /\ UNCHANGED << frame_inners, targets, iframe_channel >>
    /\ ch_cur' = << >>
    /\ UNCHANGED notTargets
    /\ UNCHANGED createVars
    /\ UNCHANGED << pending_iframes, browser_targets, tm_events, tm_pc, tm_cur,
                    ch_keys >>

\* Line 193: every collected key is handled; the handler waits for the next id.
ChannelDone ==
    /\ ch_pc = "keys"
    /\ ch_keys = {}
    /\ ch_pc' = "idle"
    /\ UNCHANGED notTargets
    /\ UNCHANGED createVars
    /\ UNCHANGED << targets, frame_inners, pending_iframes, iframe_channel,
                    browser_targets, tm_events, tm_pc, tm_cur, ch_keys, ch_cur >>

NextTargets ==
    \/ \E t \in TargetIds : OnTargetCreatedStart(t)
    \/ OnTargetCreatedAttachFailed
    \/ OnTargetCreatedCheck
    \/ \E ok \in BOOLEAN : OnTargetCreatedAdd(ok)
    \/ OnTargetCreatedWaiter
    \/ \E c \in CreateCallers, t \in PageIds : CreateTargetSend(c, t)
    \/ \E c \in CreateCallers : CreateTargetResponse(c)
    \/ \E c \in CreateCallers : CreateTargetFailed(c)
    \/ \E c \in CreateCallers : CreateTargetReturn(c)
    \/ \E t \in TargetIds : OnTargetDestroyed(t)
    \/ ChannelRecv
    \/ \E key \in TargetIds \X TargetIds : ChannelTake(key)
    \/ \E ok \in BOOLEAN : ChannelAttach(ok)
    \/ ChannelDone

-----------------------------------------------------------------------------
(* NetworkManager: the Fetch event handler and the interception flag *)

NoEvent == [id |-> 0, method |-> "none", registered |-> FALSE,
            flag_false |-> FALSE, had_credentials |-> FALSE]

InitNet ==
    /\ network_handler = FALSE
    /\ credentials = FALSE
    /\ session_ids = {}
    /\ streams = {}
    /\ ever_intercepted = FALSE
    /\ net_count = 0
    /\ net_pc = "idle"
    /\ net_cur = NoEvent
    /\ handled = EmptyMap
    /\ fetch_commands = {}
    /\ request_sent = {}
    /\ response_sent = {}
    /\ fetch_enabled = {}

\* The event the handler takes next: its request id, whether its session is
\* in session_ids, whether the flag is false (FlagSetDuringHandling clears
\* this if the flag is set before the handler is done), and the credentials
\* given to HttpRequest::new (lines 290-298 pass None, lines 326-336 pass the
\* stored ones).
TakeEvent(method, sess) ==
    [id |-> net_count + 1, method |-> method,
     registered |-> sess \in session_ids,
     flag_false |-> sess \in session_ids /\ ~network_handler,
     had_credentials |-> method = "Fetch.authRequired" /\ sess \in session_ids
                         /\ credentials]

\* The handler is done with the event (returned, or panicked).
Finish(ev) == MapInsert(handled, ev.id, ev)

\* Target::init, target.rs lines 164-204: Fetch.enable is sent on the target's
\* session and its answer awaited; the browser pauses the session's requests
\* from then on.  The session is given to add_session only later, lines
\* 206-283.
TargetInitEnable(sess) ==
    /\ sess \notin fetch_enabled
    /\ fetch_enabled' = fetch_enabled \cup {sess}
    /\ UNCHANGED notNet
    /\ UNCHANGED << network_handler, credentials, session_ids, streams, ever_intercepted,
                    net_count, net_pc, net_cur, handled, fetch_commands, request_sent,
                    response_sent >>

\* add_session, lines 208-217, called by Target::init once its enables
\* succeeded.
AddSession(sess) ==
    /\ sess \notin session_ids
    /\ sess \in fetch_enabled
    /\ session_ids' = session_ids \cup {sess}
    /\ UNCHANGED notNet
    /\ UNCHANGED fetch_enabled
    /\ UNCHANGED << network_handler, credentials, streams, ever_intercepted, net_count,
                    net_pc, net_cur, handled, fetch_commands, request_sent,
                    response_sent >>

\* remove_session, lines 257-265.
RemoveSession(sess) ==
    /\ sess \in session_ids
    /\ session_ids' = session_ids \ {sess}
    /\ UNCHANGED notNet
    /\ UNCHANGED fetch_enabled
    /\ UNCHANGED << network_handler, credentials, streams, ever_intercepted, net_count,
                    net_pc, net_cur, handled, fetch_commands, request_sent,
                    response_sent >>

\* set_credentials, lines 420-427.
SetCredentials ==
    /\ ~credentials
    /\ credentials' = TRUE
    /\ UNCHANGED notNet
    /\ UNCHANGED fetch_enabled
    /\ UNCHANGED << network_handler, session_ids, streams, ever_intercepted, net_count,
                    net_pc, net_cur, handled, fetch_commands, request_sent,
                    response_sent >>

\* An event being handled stops counting as handled under a false flag once
\* the flag is set.
FlagSetDuringHandling ==
    net_cur' = IF net_pc \in {"idle", "panicked"}
                  THEN net_cur
                  ELSE [net_cur EXCEPT !.flag_false = FALSE]

\* FrameInner::subscribe_to_requests, frame_inner.rs lines 182-188: the flag is
\* set and the consumer is given a RequestStream and a ResponseStream.
SubscribeToRequests(c) ==
    /\ << "requests", c >> \notin streams
    /\ << "responses", c >> \notin streams
    /\ network_handler' = TRUE
    /\ ever_intercepted' = TRUE
    /\ streams' = streams \cup {<< "requests", c >>, << "responses", c >>}
    /\ FlagSetDuringHandling
    /\ UNCHANGED notNet
    /\ UNCHANGED fetch_enabled
    /\ UNCHANGED << credentials, session_ids, net_count, net_pc, handled,
                    fetch_commands, request_sent, response_sent >>

\* The value a Drop stores in network_handler, lines 49-51 and 81-83.
FlagAfterDropKept(flag) == flag

FlagAfterDrop(flag) == FALSE

\* Drop for RequestStream, lines 47-53.
DropRequestStream(c) ==
    /\ << "requests", c >> \in streams
    /\ streams' = streams \ {<< "requests", c >>}
    /\ network_handler' = FlagAfterDrop(network_handler)
    /\ UNCHANGED notNet
    /\ UNCHANGED fetch_enabled
    /\ UNCHANGED << credentials, session_ids, ever_intercepted, net_count, net_pc,
                    net_cur, handled, fetch_commands, request_sent, response_sent >>

\* Drop for ResponseStream, lines 79-85.
DropResponseStream(c) ==
    /\ << "responses", c >> \in streams
    /\ streams' = streams \ {<< "responses", c >>}
    /\ network_handler' = FlagAfterDrop(network_handler)
    /\ UNCHANGED notNet
    /\ UNCHANGED fetch_enabled
    /\ UNCHANGED << credentials, session_ids, ever_intercepted, net_count, net_pc,
                    net_cur, handled, fetch_commands, request_sent, response_sent >>

\* FrameInner::wait_for_response, frame_inner.rs lines 323-324: a
\* ResponseStream of its own is created; the flag is not touched.
WaitForResponseStart(w) ==
    /\ << "wait_for_response", w >> \notin streams
    /\ streams' = streams \cup {<< "wait_for_response", w >>}
    /\ UNCHANGED notNet
    /\ UNCHANGED fetch_enabled
    /\ UNCHANGED << network_handler, credentials, session_ids, ever_intercepted,
                    net_count, net_pc, net_cur, handled, fetch_commands,
                    request_sent, response_sent >>

\* frame_inner.rs lines 326-350: the spawned task returns or is aborted and
\* its ResponseStream is dropped (lines 79-85).
WaitForResponseEnd(w) ==
    /\ << "wait_for_response", w >> \in streams
    /\ streams' = streams \ {<< "wait_for_response", w >>}
    /\ network_handler' = FlagAfterDrop(network_handler)
    /\ UNCHANGED notNet
    /\ UNCHANGED fetch_enabled
    /\ UNCHANGED << credentials, session_ids, ever_intercepted, net_count, net_pc,
                    net_cur, handled, fetch_commands, request_sent, response_sent >>

\* on_request_paused, lines 274-302, for a Fetch.requestPaused event without
\* a response status code (lines 185-188).
OnRequestPaused(sess) ==
    /\ net_pc = "idle"
    /\ sess \in fetch_enabled
    /\ net_count < MaxPaused
    /\ net_count' = net_count + 1
    /\ LET ev == TakeEvent("Fetch.requestPaused", sess)
       IN IF ~ev.registered
             THEN /\ handled' = Finish(ev)
                  /\ UNCHANGED << net_pc, net_cur, fetch_commands, request_sent >>
             ELSE IF ~network_handler
                     THEN /\ fetch_commands' =
                               fetch_commands \cup {<< "Fetch.continueRequest", ev.id >>}
                          /\ net_pc' = "continue_request"
                          /\ net_cur' = ev
                          /\ UNCHANGED << handled, request_sent >>
                     ELSE /\ request_sent' = request_sent \cup {ev.id}
                          /\ handled' = Finish(ev)
                          /\ UNCHANGED << net_pc, net_cur, fetch_commands >>
    /\ UNCHANGED notNet
    /\ UNCHANGED fetch_enabled
    /\ UNCHANGED << network_handler, credentials, session_ids, streams,
                    ever_intercepted, response_sent >>

\* on_auth_required, lines 312-342, with HttpRequest::continue_request,
\* http_request.rs lines 94-106: without credentials the unwrap panics and the
\* event handler task ends.
OnAuthRequired(sess) ==
    /\ net_pc = "idle"
    /\ sess \in fetch_enabled
    /\ net_count < MaxPaused
    /\ net_count' = net_count + 1
    /\ LET ev == TakeEvent("Fetch.authRequired", sess)
       IN IF ~ev.registered
             THEN /\ handled' = Finish(ev)
                  /\ UNCHANGED << net_pc, net_cur, fetch_commands, request_sent >>
             ELSE IF ~network_handler
                     THEN IF credentials
                             THEN /\ fetch_commands' = fetch_commands \cup
                                       {<< "Fetch.continueWithAuth", ev.id,
                                           "ProvideCredentials" >>}
                                  /\ net_pc' = "continue_request"
                                  /\ net_cur' = ev
                                  /\ UNCHANGED << handled, request_sent >>
                             ELSE /\ net_pc' = "panicked"
                                  /\ handled' = Finish(ev)
                                  /\ UNCHANGED << net_cur, fetch_commands, request_sent >>
                     ELSE /\ request_sent' = request_sent \cup {ev.id}
                          /\ handled' = Finish(ev)
                          /\ UNCHANGED << net_pc, net_cur, fetch_commands >>
    /\ UNCHANGED notNet
    /\ UNCHANGED fetch_enabled
    /\ UNCHANGED << network_handler, credentials, session_ids, streams,
                    ever_intercepted, response_sent >>

\* Lines 303-309 and 343-349: continue_request returned (its result is
\* dropped) and the request is sent on request_sender.
RequestContinued ==
    /\ net_pc = "continue_request"
    /\ request_sent' = request_sent \cup {net_cur.id}
    /\ handled' = Finish(net_cur)
    /\ net_pc' = "idle"
    /\ net_cur' = NoEvent
    /\ UNCHANGED notNet
    /\ UNCHANGED fetch_enabled
    /\ UNCHANGED << network_handler, credentials, session_ids, streams,
                    ever_intercepted, net_count, fetch_commands, response_sent >>

\* Lines 395-403 of on_response_received: the flag is loaded; the response is
\* continued if it is false, and sent on response_sender otherwise.
ResponseFlagCheck(ev) ==
    IF ~network_handler
       THEN /\ fetch_commands' = fetch_commands \cup {<< "Fetch.continueRequest", ev.id >>}
            /\ net_pc' = "continue_response"
            /\ net_cur' = ev
            /\ UNCHANGED << handled, response_sent >>
       ELSE /\ response_sent' = response_sent \cup {ev.id}
            /\ handled' = Finish(ev)
            /\ net_pc' = "idle"
            /\ net_cur' = NoEvent
            /\ UNCHANGED fetch_commands

\* on_response_received, lines 352-382, for a Fetch.requestPaused event with a
\* response status code (lines 180-184): a redirect has no body to fetch, any
\* other response waits for Fetch.getResponseBody.
OnResponseReceived(sess, is_redirect) ==
    /\ net_pc = "idle"
    /\ sess \in fetch_enabled
    /\ net_count < MaxPaused
    /\ net_count' = net_count + 1
    /\ LET ev == TakeEvent("Fetch.requestPaused", sess)
       IN IF ~ev.registered
             THEN /\ handled' = Finish(ev)
                  /\ UNCHANGED << net_pc, net_cur, fetch_commands, response_sent >>
             ELSE IF is_redirect
                     THEN ResponseFlagCheck(ev)
                     ELSE /\ fetch_commands' =
                               fetch_commands \cup {<< "Fetch.getResponseBody", ev.id >>}
                          /\ net_pc' = "body"
                          /\ net_cur' = ev
                          /\ UNCHANGED << handled, response_sent >>
    /\ UNCHANGED notNet
    /\ UNCHANGED fetch_enabled
    /\ UNCHANGED << network_handler, credentials, session_ids, streams,
                    ever_intercepted, request_sent >>

\* Lines 383-386: Fetch.getResponseBody is answered with a result, answered
\* with a protocol error (result_as fails and `?` returns), or not answered
\* (the body is None).
ResponseBodyReturned(answer) ==
    /\ net_pc = "body"
    /\ IF answer = "error"
          THEN /\ handled' = Finish(net_cur)
               /\ net_pc' = "idle"
               /\ net_cur' = NoEvent
               /\ UNCHANGED << fetch_commands, response_sent >>
          ELSE ResponseFlagCheck(net_cur)
    /\ UNCHANGED notNet
    /\ UNCHANGED fetch_enabled
    /\ UNCHANGED << network_handler, credentials, session_ids, streams,
                    ever_intercepted, net_count, request_sent >>

\* Lines 396-405: continue_response returned (its result is dropped) and the
\* response is sent on response_sender.
ResponseContinued ==
    /\ net_pc = "continue_response"
    /\ response_sent' = response_sent \cup {net_cur.id}
    /\ handled' = Finish(net_cur)
    /\ net_pc' = "idle"
    /\ net_cur' = NoEvent
    /\ UNCHANGED notNet
    /\ UNCHANGED fetch_enabled
    /\ UNCHANGED << network_handler, credentials, session_ids, streams,
                    ever_intercepted, net_count, fetch_commands, request_sent >>

NextNet ==
    \/ \E sess \in NetSessions : TargetInitEnable(sess)
    \/ \E sess \in NetSessions : AddSession(sess)
    \/ \E sess \in NetSessions : RemoveSession(sess)
    \/ SetCredentials
    \/ \E c \in Consumers : SubscribeToRequests(c)
    \/ \E c \in Consumers : DropRequestStream(c)
    \/ \E c \in Consumers : DropResponseStream(c)
    \/ \E w \in Waiters : WaitForResponseStart(w)
    \/ \E w \in Waiters : WaitForResponseEnd(w)
    \/ \E sess \in NetSessions : OnRequestPaused(sess)
    \/ \E sess \in NetSessions : OnAuthRequired(sess)
    \/ RequestContinued
    \/ \E sess \in NetSessions, is_redirect \in BOOLEAN : OnResponseReceived(sess, is_redirect)
    \/ \E answer \in {"result", "error", "no_answer"} : ResponseBodyReturned(answer)
    \/ ResponseContinued

-----------------------------------------------------------------------------
(* FrameInner::wait_for_navigation *)

\* frame_inner.rs lines 375-381.
lifecycle_event_order ==
    << "init", "load", "DOMContentLoaded", "networkAlmostIdle", "networkIdle" >>

\* frame_inner.rs lines 360-370: the waitUntil options and their events.
lifecycle_event_map ==
    [init |-> "init", load |-> "load", domcontentloaded |-> "DOMContentLoaded",
     networkidle2 |-> "networkAlmostIdle", networkidle0 |-> "networkIdle"]

\* position(): the index of a name in lifecycle_event_order, 0 if absent.
Position(name) ==
    IF \E i \in 1..Len(lifecycle_event_order) : lifecycle_event_order[i] = name
       THEN CHOOSE i \in 1..Len(lifecycle_event_order) : lifecycle_event_order[i] = name
       ELSE 0

\* The waitUntil arguments, the timeout arguments and the events tried.
WaitUntilArgs == {"load", "networkidle0", "never"}
TimeoutArgs == {<< >>, << 0 >>, << 1 >>}
NavFrames == {"this", "other"}
LifecycleNames == {"init", "load", "networkIdle", "commit"}

\* The document an event belongs to (the loaderId of Page.lifecycleEvent,
\* which LifecycleEvent does not deserialize, domains/page.rs lines 104-109):
\* the one loaded before the call or the one the awaited navigation loads.
Loaders == {"previous", "navigation"}

NoNavEvent == [kind |-> "none", frame |-> "none", name |-> "none", loader |-> "none"]

InitNav ==
    /\ nav_pc = "idle"
    /\ nav_arg = << >>
    /\ nav_timeout = 0
    /\ nav_target_index = 0
    /\ nav_clock = 0
    /\ nav_events = 0
    /\ nav_result = "none"
    /\ nav_wait_until = "none"
    /\ nav_subscribed = FALSE
    /\ nav_last = NoNavEvent
    /\ nav_send = "none"
    /\ nav_final = "none"

\* Line 358: timeout.or(Some(default_timeout)).unwrap(): the default is used
\* only when the argument is None.
EffectiveTimeout(arg) == IF arg = << >> THEN DefaultTimeoutTicks ELSE arg[1]

\* wait_for_navigation, lines 352-401: the option is looked up (an unknown one
\* is rejected before subscribing), the subscription is made and the helper
\* task is spawned.  Called by navigate (lines 454-459), Page.navigate has
\* been sent as well.
NavCall(arg, wait_until, by_navigate) ==
    /\ nav_pc = "idle"
    /\ nav_arg' = arg
    /\ nav_timeout' = EffectiveTimeout(arg)
    /\ nav_clock' = 0
    /\ nav_events' = 0
    /\ nav_wait_until' = wait_until
    /\ nav_last' = NoNavEvent
    /\ nav_send' = IF by_navigate THEN "pending" ELSE "none"
    /\ nav_final' = "none"
    /\ IF wait_until \in DOMAIN lifecycle_event_map
          THEN /\ nav_target_index' = Position(lifecycle_event_map[wait_until])
               /\ nav_pc' = "waiting"
               /\ nav_result' = "none"
               /\ nav_subscribed' = TRUE
          ELSE /\ nav_target_index' = 0
               /\ nav_pc' = "done"
               /\ nav_result' = "unknown_wait_until"
               /\ nav_subscribed' = FALSE
    /\ UNCHANGED notNav

QualifiesAnyFrame(frame, name, target_index) ==
    Position(name) >= target_index /\ Position(name) > 0

\* Lines 413-420: the event is for this frame, its name is one of the
\* expected events and its index is at or after the target index.
Qualifies(frame, name, target_index) ==
    frame = "this" /\ Position(name) >= target_index /\ Position(name) > 0

\* The helper task, lines 401-426, on a Page.lifecycleEvent: the wait is
\* completed if the event qualifies.
NavLifecycleEvent(frame, name, loader) ==
    /\ nav_pc = "waiting"
    /\ nav_events < MaxNavEvents
    /\ nav_events' = nav_events + 1
    /\ nav_last' = [kind |-> "lifecycleEvent", frame |-> frame, name |-> name,
                    loader |-> loader]
    /\ IF Qualifies(frame, name, nav_target_index)
          THEN nav_pc' = "done" /\ nav_result' = "ok"
          ELSE UNCHANGED << nav_pc, nav_result >>
    /\ UNCHANGED notNav
    /\ UNCHANGED << nav_arg, nav_timeout, nav_target_index, nav_clock, nav_wait_until,
                    nav_subscribed, nav_send, nav_final >>

\* The helper task, lines 405-410, on a Network.loadingFailed.
NavLoadingFailed(resource_type) ==
    /\ nav_pc = "waiting"
    /\ nav_events < MaxNavEvents
    /\ nav_events' = nav_events + 1
    /\ nav_last' = [kind |-> "loadingFailed", frame |-> "this", name |-> resource_type,
                    loader |-> "navigation"]
    /\ IF resource_type = "Document"
          THEN nav_pc' = "done" /\ nav_result' = "loading_failed"
          ELSE UNCHANGED << nav_pc, nav_result >>
    /\ UNCHANGED notNav
    /\ UNCHANGED << nav_arg, nav_timeout, nav_target_index, nav_clock, nav_wait_until,
                    nav_subscribed, nav_send, nav_final >>

\* Time passes while the call waits; it cannot pass the deadline of a pending
\* tokio::time::timeout (line 433), and a zero timeout has none (lines 430-431).
NavTick ==
    /\ nav_pc = "waiting"
    /\ nav_clock < MaxTicks
    /\ nav_timeout = 0 \/ nav_clock < nav_timeout
    /\ nav_clock' = nav_clock + 1
    /\ UNCHANGED notNav
    /\ UNCHANGED << nav_pc, nav_arg, nav_timeout, nav_target_index, nav_events,
                    nav_result, nav_wait_until, nav_subscribed, nav_last, nav_send,
                    nav_final >>

\* Lines 438-441: the timer fires, the helper is aborted and the call fails.
NavTimedOut ==
    /\ nav_pc = "waiting"
    /\ nav_timeout # 0
    /\ nav_clock >= nav_timeout
    /\ nav_pc' = "done"
    /\ nav_result' = "timed_out"
    /\ UNCHANGED notNav
    /\ UNCHANGED << nav_arg, nav_timeout, nav_target_index, nav_clock, nav_events,
                    nav_wait_until, nav_subscribed, nav_last, nav_send, nav_final >>

\* navigate, line 455: Connection::send returns for Page.navigate: Ok with a
\* result, Ok with a protocol error in the response (connection.rs line 441),
\* or Err (lines 442-446).
NavigateAnswered(answer) ==
    /\ nav_send = "pending"
    /\ nav_send' = answer
    /\ UNCHANGED notNav
    /\ UNCHANGED << nav_pc, nav_arg, nav_timeout, nav_target_index, nav_clock,
                    nav_events, nav_result, nav_wait_until, nav_subscribed, nav_last,
                    nav_final >>

\* navigate, lines 459-468: Err if send returned Err, else the wait's result.
NavigateResult(sent, waited) ==
    IF sent = "failed" THEN "err" ELSE IF waited = "ok" THEN "ok" ELSE "err"

\* The caller takes the result; for navigate, once both halves of join! are
\* done.  The helper task is over and its subscription receiver dropped.
NavReturn ==
    /\ nav_pc = "done"
    /\ nav_send # "pending"
    /\ nav_pc' = "idle"
    /\ nav_final' = IF nav_send = "none" THEN "none"
                                       ELSE NavigateResult(nav_send, nav_result)
    /\ nav_result' = "none"
    /\ nav_clock' = 0
    /\ nav_events' = 0
    /\ nav_subscribed' = FALSE
    /\ UNCHANGED notNav
    /\ UNCHANGED << nav_arg, nav_timeout, nav_target_index, nav_wait_until, nav_last,
                    nav_send >>

SendAnswers == {"result", "protocol_error", "failed"}

NextNav ==
    \/ \E arg \in TimeoutArgs, w \in WaitUntilArgs, by_navigate \in BOOLEAN :
          NavCall(arg, w, by_navigate)
    \/ \E f \in NavFrames, name \in LifecycleNames, loader \in Loaders :
          NavLifecycleEvent(f, name, loader)
    \/ \E rt \in {"Document", "Image"} : NavLoadingFailed(rt)
    \/ NavTick
    \/ NavTimedOut
    \/ \E answer \in SendAnswers : NavigateAnswered(answer)
    \/ NavReturn

-----------------------------------------------------------------------------
(* FrameInner::wait_for_selector and JsManager's DOM signal bus *)

InitSel ==
    /\ sel_matches = FALSE
    /\ sel_in_flight = 0
    /\ sel_signals = 0
    /\ sel_main = "idle"
    /\ sel_helper = "none"
    /\ sel_pending = 0
    /\ sel_lagged = FALSE
    /\ sel_result = "none"

\* wait_for_selector, lines 681-686: the helper task is spawned; it has not
\* run yet when the call goes on to its direct query.
SelCall ==
    /\ sel_main = "idle"
    /\ sel_main' = "query"
    /\ sel_helper' = "spawned"
    /\ UNCHANGED notSel
    /\ UNCHANGED << sel_matches, sel_in_flight, sel_signals, sel_pending, sel_lagged,
                    sel_result >>

\* The page's DOM changes; the change may make the selector match, and the
\* selector keeps matching once it does.  The browser sends a notification.
SelMutate(makes_match) ==
    /\ sel_main # "idle"
    /\ sel_signals < MaxSignals
    /\ sel_signals' = sel_signals + 1
    /\ sel_matches' = (sel_matches \/ makes_match)
    /\ sel_in_flight' = sel_in_flight + 1
    /\ UNCHANGED notSel
    /\ UNCHANGED << sel_main, sel_helper, sel_pending, sel_lagged, sel_result >>

\* The helper has a live broadcast receiver.
HelperSubscribed == sel_helper \in {"recv", "query", "sleep"}

\* JsManager::on_dom_event, js_manager.rs lines 249-252: dom_sender.send(()).
\* Only receivers that exist at this moment get the signal; one that is full
\* is marked as lagged.
SelBroadcast ==
    /\ sel_in_flight > 0
    /\ sel_in_flight' = sel_in_flight - 1
    /\ IF HelperSubscribed
          THEN IF sel_pending < BusCapacity
                  THEN sel_pending' = sel_pending + 1 /\ UNCHANGED sel_lagged
                  ELSE sel_lagged' = TRUE /\ UNCHANGED sel_pending
          ELSE UNCHANGED << sel_pending, sel_lagged >>
    /\ UNCHANGED notSel
    /\ UNCHANGED << sel_matches, sel_signals, sel_main, sel_helper, sel_result >>

\* The helper task starts, line 687: subscribe_to_dom_events().
SelHelperSubscribe ==
    /\ sel_helper = "spawned"
    /\ sel_helper' = "recv"
    /\ sel_pending' = 0
    /\ sel_lagged' = FALSE
    /\ UNCHANGED notSel
    /\ UNCHANGED << sel_matches, sel_in_flight, sel_signals, sel_main, sel_result >>

\* The helper, lines 689-690: recv() yields Ok(()) or Err(Lagged); both lead
\* to a query.
SelHelperRecv ==
    /\ sel_helper = "recv"
    /\ sel_lagged \/ sel_pending > 0
    /\ IF sel_lagged
          THEN sel_lagged' = FALSE /\ UNCHANGED sel_pending
          ELSE sel_pending' = sel_pending - 1 /\ UNCHANGED sel_lagged
    /\ sel_helper' = "query"
    /\ UNCHANGED notSel
    /\ UNCHANGED << sel_matches, sel_in_flight, sel_signals, sel_main, sel_result >>

\* The helper, lines 691-700: query_selector is evaluated on the document as
\* it is; a hit ends the task with the element, a miss leads to the sleep.
SelHelperQuery ==
    /\ sel_helper = "query"
    /\ sel_helper' = IF sel_matches THEN "returned" ELSE "sleep"
    /\ UNCHANGED notSel
    /\ UNCHANGED << sel_matches, sel_in_flight, sel_signals, sel_main, sel_pending,
                    sel_lagged, sel_result >>

\* The helper, lines 696-698: the 10 ms sleep is over.
SelHelperWake ==
    /\ sel_helper = "sleep"
    /\ sel_helper' = "recv"
    /\ UNCHANGED notSel
    /\ UNCHANGED << sel_matches, sel_in_flight, sel_signals, sel_main, sel_pending,
                    sel_lagged, sel_result >>

\* wait_for_selector, lines 717-723: the direct query is evaluated; a hit
\* aborts the helper and returns the element.
SelDirectQuery ==
    /\ sel_main = "query"
    /\ IF sel_matches
          THEN sel_main' = "done" /\ sel_result' = "element" /\ sel_helper' = "aborted"
          ELSE sel_main' = "wait" /\ UNCHANGED << sel_result, sel_helper >>
    /\ UNCHANGED notSel
    /\ UNCHANGED << sel_matches, sel_in_flight, sel_signals, sel_pending, sel_lagged >>

\* Lines 725-732: the helper's result is the call's result.
SelReturn ==
    /\ sel_main = "wait"
    /\ sel_helper = "returned"
    /\ sel_main' = "done"
    /\ sel_result' = "element"
    /\ UNCHANGED notSel
    /\ UNCHANGED << sel_matches, sel_in_flight, sel_signals, sel_helper, sel_pending,
                    sel_lagged >>

\* Lines 733-737: the timer fires first; the helper is aborted.
SelTimedOut ==
    /\ sel_main = "wait"
    /\ sel_helper # "returned"
    /\ sel_main' = "done"
    /\ sel_result' = "timed_out"
    /\ sel_helper' = "aborted"
    /\ UNCHANGED notSel
    /\ UNCHANGED << sel_matches, sel_in_flight, sel_signals, sel_pending, sel_lagged >>

NextSel ==
    \/ SelCall
    \/ \E makes_match \in BOOLEAN : SelMutate(makes_match)
    \/ SelBroadcast
    \/ SelHelperSubscribe
    \/ SelHelperRecv
    \/ SelHelperQuery
    \/ SelHelperWake
    \/ SelDirectQuery
    \/ SelReturn
    \/ SelTimedOut

-----------------------------------------------------------------------------
(* NetworkManager: extra headers, cache and bypass settings, and their
   replay by add_session.  The manager is initialised (its event subscriber
   is set); one task calls the setters, another runs add_session. *)

SetSessions == {"s1", "s2"}
NoHeaders == {}
HeaderMaps == {{"x-extra"}}

HeaderOps == {"set_extra_headers", "clear_extra_headers"}
FlagOps == {"set_cache_disabled", "set_bypass_service_worker"}

InitSettings ==
    /\ nm_session_ids = {}
    /\ fetch_registered = {}
    /\ extra_headers = NoHeaders
    /\ cache_disabled = FALSE
    /\ bypass_service_worker = FALSE
    /\ wire_headers = [s \in SetSessions |-> << >>]
    /\ wire_cache = [s \in SetSessions |-> << >>]
    /\ wire_bypass = [s \in SetSessions |-> << >>]
    /\ st_pc = "idle"
    /\ st_op = "none"
    /\ st_arg = NoHeaders
    /\ st_flag = FALSE
    /\ st_done = {}
    /\ st_late = {}
    /\ st_calls = 0
    /\ st_failed = FALSE
    /\ hdr_calls = << >>
    /\ as_pc = "idle"
    /\ as_sess = "none"
    /\ as_headers = NoHeaders

\* set_extra_headers(headers), lines 429-433, or clear_extra_headers():
\* the header setters store after their loop (lines 444-447, 461).
SetHeadersCall(op, headers) ==
    /\ st_pc = "idle"
    /\ st_calls < MaxSetterCalls
    /\ op \in HeaderOps
    /\ headers = NoHeaders <=> op = "clear_extra_headers"
    /\ st_calls' = st_calls + 1
    /\ st_op' = op
    /\ st_arg' = headers
    /\ st_pc' = "loop"
    /\ st_done' = {}
    /\ st_late' = {}
    /\ UNCHANGED notSettings
    /\ UNCHANGED << nm_session_ids, fetch_registered, extra_headers, cache_disabled,
                    bypass_service_worker, wire_headers, wire_cache, wire_bypass,
                    st_flag, st_failed, hdr_calls, as_pc, as_sess, as_headers >>

\* set_cache_disabled / set_bypass_service_worker: the flag is stored first
\* (lines 466, 480), then the loop runs.
SetFlagCall(op, flag) ==
    /\ st_pc = "idle"
    /\ st_calls < MaxSetterCalls
    /\ op \in FlagOps
    /\ st_calls' = st_calls + 1
    /\ st_op' = op
    /\ st_flag' = flag
    /\ st_pc' = "loop"
    /\ st_done' = {}
    /\ st_late' = {}
    /\ cache_disabled' = IF op = "set_cache_disabled" THEN flag ELSE cache_disabled
    /\ bypass_service_worker' =
          IF op = "set_bypass_service_worker" THEN flag ELSE bypass_service_worker
    /\ UNCHANGED notSettings
    /\ UNCHANGED << nm_session_ids, fetch_registered, extra_headers, wire_headers,
                    wire_cache, wire_bypass, st_arg, st_failed, hdr_calls, as_pc, as_sess,
                    as_headers >>

\* One turn of `for session_id in self.session_ids.iter()`: the command is
\* sent to the session; a failed send returns the error (`?`).
SetterSend(s, ok) ==
    /\ st_pc = "loop"
    /\ s \in nm_session_ids \ st_done
    /\ IF ok
          THEN /\ st_done' = st_done \cup {s}
               /\ st_pc' = "loop"
               /\ UNCHANGED st_failed
               /\ wire_headers' =
                     IF st_op \in HeaderOps
                        THEN [wire_headers EXCEPT ![s] = << st_arg >>]
                        ELSE wire_headers
               /\ wire_cache' =
                     IF st_op = "set_cache_disabled"
                        THEN [wire_cache EXCEPT ![s] = << st_flag >>]
                        ELSE wire_cache
               /\ wire_bypass' =
                     IF st_op = "set_bypass_service_worker"
                        THEN [wire_bypass EXCEPT ![s] = << st_flag >>]
                        ELSE wire_bypass
          ELSE /\ st_pc' = "idle"
               /\ st_failed' = TRUE
               /\ UNCHANGED << st_done, wire_headers, wire_cache, wire_bypass >>
    /\ UNCHANGED notSettings
    /\ UNCHANGED << nm_session_ids, fetch_registered, extra_headers, cache_disabled,
                    bypass_service_worker, st_op, st_arg, st_flag, st_late, st_calls,
                    hdr_calls, as_pc, as_sess, as_headers >>

\* The iteration is over.  A session inserted while the iteration ran may
\* or may not have been visited (DashSet::iter walks the shards in turn).
\* The flag setters return; the header setters go on to store.
SetterLoopEnd ==
    /\ st_pc = "loop"
    /\ (nm_session_ids \ st_done) \subseteq st_late
    /\ st_pc' = IF st_op \in HeaderOps THEN "store" ELSE "idle"
    /\ UNCHANGED notSettings
    /\ UNCHANGED << nm_session_ids, fetch_registered, extra_headers, cache_disabled,
                    bypass_service_worker, wire_headers, wire_cache, wire_bypass,
                    st_op, st_arg, st_flag, st_done, st_late, st_calls, st_failed, hdr_calls, as_pc,
                    as_sess, as_headers >>

\* set_extra_headers lines 444-449, clear_extra_headers lines 461-462.
SetterStore ==
    /\ st_pc = "store"
    /\ extra_headers' = st_arg
    /\ hdr_calls' = Append(hdr_calls, st_op)
    /\ st_pc' = "idle"
    /\ UNCHANGED notSettings
    /\ UNCHANGED << nm_session_ids, fetch_registered, cache_disabled,
                    bypass_service_worker, wire_headers, wire_cache, wire_bypass,
                    st_op, st_arg, st_flag, st_done, st_late, st_calls, st_failed,
                    as_pc, as_sess, as_headers >>

\* add_session lines 209-217: the session is inserted and added to the
\* event subscriber.
AddSessionStart(s) ==
    /\ as_pc = "idle"
    /\ s \notin nm_session_ids
    /\ nm_session_ids' = nm_session_ids \cup {s}
    /\ fetch_registered' = fetch_registered \cup {s}
    /\ st_late' = IF st_pc = "loop" THEN st_late \cup {s} ELSE st_late
    /\ as_sess' = s
    /\ as_pc' = "read"
    /\ UNCHANGED notSettings
    /\ UNCHANGED << extra_headers, cache_disabled, bypass_service_worker,
                    wire_headers, wire_cache, wire_bypass, st_pc, st_op, st_arg, st_flag,
                    st_done, st_calls, st_failed, hdr_calls, as_headers >>

\* add_session lines 219-223: converted_headers is a copy of the stored map.
AddSessionRead ==
    /\ as_pc = "read"
    /\ as_headers' = extra_headers
    /\ as_pc' = "headers"
    /\ UNCHANGED notSettings
    /\ UNCHANGED << nm_session_ids, fetch_registered, extra_headers, cache_disabled,
                    bypass_service_worker, wire_headers, wire_cache, wire_bypass,
                    st_pc, st_op, st_arg, st_flag, st_done, st_late, st_calls, st_failed, hdr_calls,
                    as_sess >>

\* add_session lines 225-232: the copy is sent unless it is empty.
AddSessionReplayHeaders(ok) ==
    /\ as_pc = "headers"
    /\ IF as_headers = NoHeaders
          THEN /\ ok
               /\ as_pc' = "cache"
               /\ UNCHANGED wire_headers
          ELSE IF ok
                  THEN /\ wire_headers' = [wire_headers EXCEPT ![as_sess] = << as_headers >>]
                       /\ as_pc' = "cache"
                  ELSE /\ as_pc' = "idle"
                       /\ UNCHANGED wire_headers
    /\ UNCHANGED notSettings
    /\ UNCHANGED << nm_session_ids, fetch_registered, extra_headers, cache_disabled,
                    bypass_service_worker, wire_cache, wire_bypass, st_pc, st_op,
                    st_arg, st_flag, st_done, st_late, st_calls, st_failed, hdr_calls, as_sess,
                    as_headers >>

\* add_session lines 234-242.
AddSessionReplayCache(ok) ==
    /\ as_pc = "cache"
    /\ IF ~cache_disabled
          THEN /\ ok
               /\ as_pc' = "bypass"
               /\ UNCHANGED wire_cache
          ELSE IF ok
                  THEN /\ wire_cache' = [wire_cache EXCEPT ![as_sess] = << TRUE >>]
                       /\ as_pc' = "bypass"
                  ELSE /\ as_pc' = "idle"
                       /\ UNCHANGED wire_cache
    /\ UNCHANGED notSettings
    /\ UNCHANGED << nm_session_ids, fetch_registered, extra_headers, cache_disabled,
                    bypass_service_worker, wire_headers, wire_bypass, st_pc, st_op,
                    st_arg, st_flag, st_done, st_late, st_calls, st_failed, hdr_calls, as_sess,
                    as_headers >>

\* add_session lines 244-252.
AddSessionReplayBypass(ok) ==
    /\ as_pc = "bypass"
    /\ IF ~bypass_service_worker
          THEN /\ ok
               /\ as_pc' = "return"
               /\ UNCHANGED wire_bypass
          ELSE IF ok
                  THEN /\ wire_bypass' = [wire_bypass EXCEPT ![as_sess] = << TRUE >>]
                       /\ as_pc' = "return"
                  ELSE /\ as_pc' = "idle"
                       /\ UNCHANGED wire_bypass
    /\ UNCHANGED notSettings
    /\ UNCHANGED << nm_session_ids, fetch_registered, extra_headers, cache_disabled,
                    bypass_service_worker, wire_headers, wire_cache, st_pc, st_op,
                    st_arg, st_flag, st_done, st_late, st_calls, st_failed, hdr_calls, as_sess,
                    as_headers >>

\* add_session line 254: Ok(()).
AddSessionReturn ==
    /\ as_pc = "return"
    /\ as_pc' = "idle"
    /\ UNCHANGED notSettings
    /\ UNCHANGED << nm_session_ids, fetch_registered, extra_headers, cache_disabled,
                    bypass_service_worker, wire_headers, wire_cache, wire_bypass,
                    st_pc, st_op, st_arg, st_flag, st_done, st_late, st_calls, st_failed, hdr_calls,
                    as_sess, as_headers >>

NextSettings ==
    \/ \E op \in HeaderOps : \E headers \in HeaderMaps \cup {NoHeaders} :
          SetHeadersCall(op, headers)
    \/ \E op \in FlagOps : \E flag \in BOOLEAN : SetFlagCall(op, flag)
    \/ \E s \in SetSessions : \E ok \in BOOLEAN : SetterSend(s, ok)
    \/ SetterLoopEnd
    \/ SetterStore
    \/ \E s \in SetSessions : AddSessionStart(s)
    \/ AddSessionRead
    \/ \E ok \in BOOLEAN : AddSessionReplayHeaders(ok)
    \/ \E ok \in BOOLEAN : AddSessionReplayCache(ok)
    \/ \E ok \in BOOLEAN : AddSessionReplayBypass(ok)
    \/ AddSessionReturn

-----------------------------------------------------------------------------
(* Frames and targets: Page.frameAttached / frameDetached, target
   destruction with Target::shutdown, and operations called through Page and
   Element handles.  The target-created handling and the iframe channel
   handler are the actions of the section above. *)

\* Same-process child frames: plainX in the page, plainY nested in plainX.
PlainFrames == {"plainX", "plainY"}
PlainParent == [plainX |-> << "page" >>, plainY |-> << "plainX" >>]
FrameIds == TargetIds \cup PlainFrames

\* params.parent_frame_id of the frame's frameAttached event.
FrameParentOf == [f \in FrameIds |-> IF f \in TargetIds THEN ParentOf[f] ELSE PlainParent[f]]

RECURSIVE AncestorsOrSelf(_)
AncestorsOrSelf(f) ==
    IF FrameParentOf[f] = << >> THEN {f} ELSE {f} \cup AncestorsOrSelf(FrameParentOf[f][1])

\* The frames that leave the browser with frame or target x.
Subtree(x) == {f \in FrameIds : x \in AncestorsOrSelf(f)}

\* The browser has frame x: a child frame that is attached, or the main
\* frame of a live page.
BrowserHasFrame(x) == x \in browser_frames \/ (x \in PageIds /\ x \in browser_targets)

\* The top-level target whose managers target t uses (target.rs lines 214-216).
RECURSIVE ManagersOf(_)
ManagersOf(t) == IF TargetType[t] # "iframe" THEN t ELSE ManagersOf(ParentOf[t][1])

NoFrameEvent == [kind |-> "none", id |-> "none", ok |-> FALSE, indexed |-> FALSE]

InitFrames ==
    /\ browser_frames = {}
    /\ gone_kind = [t \in TargetIds |-> "none"]
    /\ shutdown_done = {}
    /\ managers_shut = {}
    /\ held = [t \in TargetIds |-> 0]
    /\ fr_handle = "none"
    /\ fr_valid = FALSE
    /\ fr_pc = "idle"
    /\ fr_target = "none"
    /\ fr_result = "none"
    /\ fr_last = NoFrameEvent

\* The Target value of t has not been dropped: the index holds an Arc to it,
\* or a running operation does.
TargetAlive(t) == t \in DOMAIN targets \/ held[t] > 0

\* FrameInner::new as on_frame_attached calls it, lines 287-292 and 299-304:
\* the frame owner's backend node id is set.
NewAttachedFrame(target, parent) ==
    [NewFrameInner(target, parent) EXCEPT !.backend_node_id = TRUE]

\* Target.targetCreated for a target id the browser has not used before.
FrTargetCreatedStart(t) ==
    /\ gone_kind[t] = "none"
    /\ OnTargetCreatedStart(t)

\* on_frame_attached, lines 261-326.  DOM.getFrameOwner may fail (`?`).  The
\* frame is bound to the target stored under frame_id, else to the target
\* stored under parent_frame_id, else no FrameInner is made; the handler
\* returns Ok in all three cases.
OnFrameAttached(f, ok) ==
    /\ tm_pc = "idle"
    /\ tm_events < MaxTargetEvents
    /\ FrameParentOf[f] # << >>
    /\ f \notin browser_frames
    /\ BrowserHasFrame(FrameParentOf[f][1])
    /\ f \in TargetIds => gone_kind[f] = "none"
    /\ browser_frames' = browser_frames \cup {f}
    /\ tm_events' = tm_events + 1
    /\ fr_last' = [kind |-> "frameAttached", id |-> f, ok |-> ok, indexed |-> FALSE]
    /\ LET parent == FrameParentOf[f][1]
           made == IF f \in DOMAIN targets
                      THEN << NewAttachedFrame(f, << parent >>) >>
                      ELSE IF parent \in DOMAIN targets
                              THEN << NewAttachedFrame(parent, << parent >>) >>
                              ELSE << >>
           added == IF made = << >> THEN frame_inners
                                   ELSE MapInsert(frame_inners, f, made[1])
       IN IF ok
             THEN /\ frame_inners' = AddChildFrame(added, parent, f)
                  /\ fr_valid' = (fr_valid /\ ~(fr_handle = f /\ made # << >>))
             ELSE UNCHANGED << frame_inners, fr_valid >>
    /\ UNCHANGED notTargetsOrFrames
    /\ UNCHANGED << targets, pending_iframes, iframe_channel, browser_targets, tm_pc,
                    tm_cur, ch_pc, ch_keys, ch_cur, createVars >>
    /\ UNCHANGED << gone_kind, shutdown_done, managers_shut, held, fr_handle, fr_pc,
                    fr_target, fr_result >>

\* FrameInner::parent_frame, frame_inner.rs lines 93-105, goes through
\* target(), which panics when the frame's target has been dropped.
ParentFramePanics(frames, f, alive) ==
    f \in DOMAIN frames /\ frames[f].target \notin alive

\* on_frame_detached, lines 470-496: a frame that has a target of its own is
\* left to targetDestroyed; any other frame is unlinked from its parent and
\* removed.
OnFrameDetached(f) ==
    /\ tm_pc = "idle"
    /\ tm_events < MaxTargetEvents
    /\ f \in browser_frames
    /\ browser_frames' = browser_frames \ Subtree(f)
    /\ tm_events' = tm_events + 1
    /\ fr_last' = [kind |-> "frameDetached", id |-> f, ok |-> TRUE,
                   indexed |-> f \in DOMAIN targets]
    /\ IF f \in DOMAIN targets
          THEN UNCHANGED << frame_inners, fr_valid, tm_pc >>
          ELSE IF ParentFramePanics(frame_inners, f, {t \in TargetIds : TargetAlive(t)})
                  THEN /\ tm_pc' = "panicked"
                       /\ UNCHANGED << frame_inners, fr_valid >>
                  ELSE /\ frame_inners' = RemoveFrame(frame_inners, f)
                       /\ fr_valid' = (fr_valid /\ fr_handle # f)
                       /\ UNCHANGED tm_pc
    /\ UNCHANGED notTargetsOrFrames
    /\ UNCHANGED << targets, pending_iframes, iframe_channel, browser_targets,
                    tm_cur, ch_pc, ch_keys, ch_cur, createVars >>
    /\ UNCHANGED << gone_kind, shutdown_done, managers_shut, held, fr_handle, fr_pc,
                    fr_target, fr_result >>

\* Target::shutdown, target.rs lines 334-384: the managers' event loops are
\* shut down unless the target is an iframe.
ShutdownManagers(shut, t) ==
    IF TargetType[t] # "iframe" THEN shut \cup {ManagersOf(t)} ELSE shut

\* on_target_destroyed (lines 498-522) and on_target_crashed (lines 524-548),
\* the same code: the target leaves the index, its frame is unlinked and
\* removed, and Target::shutdown runs if Arc::try_unwrap succeeds, that is if
\* no one else holds the target.
OnTargetGone(t, kind) ==
    /\ tm_pc = "idle"
    /\ tm_events < MaxTargetEvents
    /\ t \in browser_targets
    /\ browser_targets' = browser_targets \ {t}
    /\ browser_frames' = browser_frames \ Subtree(t)
    /\ tm_events' = tm_events + 1
    /\ gone_kind' = [gone_kind EXCEPT ![t] = kind]
    /\ fr_last' = [kind |-> kind, id |-> t, ok |-> TRUE, indexed |-> t \in DOMAIN targets]
    /\ IF t \in DOMAIN targets
          THEN /\ targets' = MapRemove(targets, t)
               /\ IF ParentFramePanics(frame_inners, t,
                                       {u \in TargetIds : TargetAlive(u)} \cup {t})
                     THEN /\ tm_pc' = "panicked"
                          /\ UNCHANGED << frame_inners, fr_valid, shutdown_done,
                                          managers_shut >>
                     ELSE /\ frame_inners' = RemoveFrame(frame_inners, t)
                          /\ fr_valid' = (fr_valid /\ ~(fr_handle = t /\ t \in DOMAIN frame_inners))
                          /\ UNCHANGED tm_pc
                          /\ IF held[t] = 0
                                THEN /\ shutdown_done' = shutdown_done \cup {t}
                                     /\ managers_shut' = ShutdownManagers(managers_shut, t)
                                ELSE UNCHANGED << shutdown_done, managers_shut >>
          ELSE UNCHANGED << targets, frame_inners, fr_valid, tm_pc, shutdown_done,
                            managers_shut >>
    /\ UNCHANGED notTargetsOrFrames
    /\ UNCHANGED << pending_iframes, iframe_channel, tm_cur, ch_pc, ch_keys, ch_cur,
                    createVars >>
    /\ UNCHANGED << held, fr_handle, fr_pc, fr_target, fr_result >>

\* The user gets a Page or an Element of frame f: a Weak<FrameInner>
\* (page.rs line 23, element.rs lines 17-22).
ObtainHandle(f) ==
    /\ fr_handle = "none"
    /\ f \in DOMAIN frame_inners
    /\ fr_handle' = f
    /\ fr_valid' = TRUE
    /\ UNCHANGED notFrames
    /\ UNCHANGED << browser_frames, gone_kind, shutdown_done, managers_shut, held,
                    fr_pc, fr_target, fr_result, fr_last >>

\* An operation through the handle: the Weak<FrameInner> is upgraded
\* (element.rs lines 24-35, page.rs lines 27-32), then FrameInner::target,
\* frame_inner.rs lines 80-86, upgrades the frame's target or panics.
HandleCall ==
    /\ fr_pc = "idle"
    /\ fr_handle # "none"
    /\ fr_result = "none"
    /\ IF ~fr_valid
          THEN /\ fr_result' = "err"
               /\ UNCHANGED << fr_pc, fr_target, held >>
          ELSE LET tg == frame_inners[fr_handle].target
               IN IF TargetAlive(tg)
                     THEN /\ held' = [held EXCEPT ![tg] = @ + 1]
                          /\ fr_target' = tg
                          /\ fr_pc' = "holding"
                          /\ UNCHANGED fr_result
                     ELSE /\ fr_pc' = "panicked"
                          /\ fr_result' = "panic"
                          /\ UNCHANGED << fr_target, held >>
    /\ UNCHANGED notFrames
    /\ UNCHANGED << browser_frames, gone_kind, shutdown_done, managers_shut,
                    fr_handle, fr_valid, fr_last >>

\* The operation's CDP call is over (frame_inner.rs lines 159-162); the
\* Arc<Target> it held is dropped.
HandleReturn(ok) ==
    /\ fr_pc = "holding"
    /\ held' = [held EXCEPT ![fr_target] = @ - 1]
    /\ fr_target' = "none"
    /\ fr_pc' = "idle"
    /\ fr_result' = IF ok THEN "ok" ELSE "err"
    /\ UNCHANGED notFrames
    /\ UNCHANGED << browser_frames, gone_kind, shutdown_done, managers_shut,
                    fr_handle, fr_valid, fr_last >>

GoneKinds == {"targetDestroyed", "targetCrashed"}

NextFrames ==
    \/ \E t \in TargetIds : FrTargetCreatedStart(t)
    \/ OnTargetCreatedAttachFailed
    \/ OnTargetCreatedCheck
    \/ \E ok \in BOOLEAN : OnTargetCreatedAdd(ok)
    \/ OnTargetCreatedWaiter
    \/ ChannelRecv
    \/ \E key \in TargetIds \X TargetIds : ChannelTake(key)
    \/ \E ok \in BOOLEAN : ChannelAttach(ok)
    \/ ChannelDone
    \/ \E f \in FrameIds : \E ok \in BOOLEAN : OnFrameAttached(f, ok)
    \/ \E f \in FrameIds : OnFrameDetached(f)
    \/ \E t \in TargetIds : \E kind \in GoneKinds : OnTargetGone(t, kind)
    \/ \E f \in FrameIds : ObtainHandle(f)
    \/ HandleCall
    \/ \E ok \in BOOLEAN : HandleReturn(ok)

-----------------------------------------------------------------------------
(* QueryBuilder: the selector parser, the evaluation of a comma-separated
   query and the text search over the frame tree.  One call runs at a time
   and starts from fresh locals. *)

psVars == << ps_selector, ps_steps >>
altVars == << alt_outcomes, alt_has_start, alt_idx, alt_called, alt_result >>
tsVars == << ts_all, ts_matches, ts_stack, ts_frames, ts_targets, ts_order, ts_nodes,
             ts_failed >>

\* The selectors of at most n characters: a name character, the combinator /
\* piercer character and white space.
Selectors(n) == UNION {[1..k -> {"a", ">", " "}] : k \in 0..n}

\* str::trim on a sequence of characters.
RECURSIVE Trim(_)
Trim(str) ==
    IF str = << >> THEN str
    ELSE IF Head(str) = " " THEN Trim(Tail(str))
    ELSE IF str[Len(str)] = " " THEN Trim(SubSeq(str, 1, Len(str) - 1))
    ELSE str

\* Lines 490-494: the number of '>' from position i on.
RECURSIVE RunLength(_, _)
RunLength(selector, i) ==
    IF i <= Len(selector) /\ selector[i] = ">" THEN 1 + RunLength(selector, i + 1) ELSE 0

\* Lines 495-498 and 514-516: the collected text becomes a CSS step unless it
\* is blank.
PushCss(steps, current) ==
    IF Trim(current) = << >> THEN steps
    ELSE Append(steps, [kind |-> "CssSelector", css |-> Trim(current)])

\* The while loop of parse_selector_path, lines 487-512, from position i on,
\* and the final push, lines 514-518.  Every run of '>' ends the collected
\* text; a run of three or four adds a shadow-root step, any other run adds
\* nothing.
RECURSIVE ParseFrom(_, _, _, _)
ParseFrom(selector, i, current, steps) ==
    IF i > Len(selector) THEN PushCss(steps, current)
    ELSE IF selector[i] = ">"
       THEN LET count == RunLength(selector, i)
                pushed == PushCss(steps, current)
                kept == IF Trim(current) = << >> THEN current ELSE << >>
            IN ParseFrom(selector, i + count, kept,
                         IF count = 3
                            THEN Append(pushed, [kind |-> "ShadowRootDeep", css |-> << >>])
                            ELSE IF count = 4
                               THEN Append(pushed, [kind |-> "ShadowRootDirect", css |-> << >>])
                               ELSE pushed)
       ELSE ParseFrom(selector, i + 1, Append(current, selector[i]), steps)

parse_selector_path(selector) == ParseFrom(selector, 1, << >>, << >>)

\* The queries of at most n alternatives, each given by what it meets when
\* parse() evaluates it (lines 79-103): the Weak<FrameInner> does not upgrade,
\* the start node lookup frame_inner.node(0) fails, the path yields nothing,
\* or it yields a node.  With a start node given to the builder no lookup is
\* made (line 86).
Queries(n, has_start) ==
    UNION {[1..k -> {"no_frame", "nothing", "node"}
                       \cup (IF has_start THEN {} ELSE {"start_failed"})]
             : k \in 1..n}

InitQuery ==
    /\ qb_pc = "idle"
    /\ ps_selector = << >>
    /\ ps_steps = << >>
    /\ alt_outcomes = << >>
    /\ alt_has_start = FALSE
    /\ alt_idx = 0
    /\ alt_called = {}
    /\ alt_result = 0
    /\ ts_all = FALSE
    /\ ts_matches = {}
    /\ ts_stack = << >>
    /\ ts_frames = {}
    /\ ts_targets = {}
    /\ ts_order = << >>
    /\ ts_nodes = << >>
    /\ ts_failed = FALSE

\* parse_selector_path(selector), lines 482-519.
ParseSelectorCall(selector) ==
    /\ qb_pc = "idle"
    /\ ps_selector' = selector
    /\ ps_steps' = parse_selector_path(selector)
    /\ qb_pc' = "parsed"
    /\ alt_outcomes' = << >>
    /\ alt_has_start' = FALSE
    /\ alt_idx' = 0
    /\ alt_called' = {}
    /\ alt_result' = 0
    /\ ts_all' = FALSE
    /\ ts_matches' = {}
    /\ ts_stack' = << >>
    /\ ts_frames' = {}
    /\ ts_targets' = {}
    /\ ts_order' = << >>
    /\ ts_nodes' = << >>
    /\ ts_failed' = FALSE
    /\ UNCHANGED notQuery

\* parse(), lines 77-78: the query is split at the commas.
QueryCall(outcomes, has_start) ==
    /\ qb_pc = "idle"
    /\ alt_outcomes' = outcomes
    /\ alt_has_start' = has_start
    /\ alt_idx' = 1
    /\ alt_called' = {}
    /\ alt_result' = 0
    /\ qb_pc' = "alternatives"
    /\ ps_selector' = << >>
    /\ ps_steps' = << >>
    /\ ts_all' = FALSE
    /\ ts_matches' = {}
    /\ ts_stack' = << >>
    /\ ts_frames' = {}
    /\ ts_targets' = {}
    /\ ts_order' = << >>
    /\ ts_nodes' = << >>
    /\ ts_failed' = FALSE
    /\ UNCHANGED notQuery

\* One turn of the loop over the alternatives, lines 78-104, or its end,
\* line 106.
QueryAlternative ==
    /\ qb_pc = "alternatives"
    /\ IF alt_idx > Len(alt_outcomes)
          THEN /\ qb_pc' = "returned"
               /\ UNCHANGED << alt_idx, alt_called, alt_result >>
          ELSE LET met == alt_outcomes[alt_idx]
               IN /\ alt_called' = IF met = "no_frame" THEN alt_called
                                                          ELSE alt_called \cup {alt_idx}
                  /\ alt_result' = IF met = "node" THEN alt_idx ELSE 0
                  /\ IF met \in {"node", "start_failed"}
                        THEN qb_pc' = "returned" /\ UNCHANGED alt_idx
                        ELSE alt_idx' = alt_idx + 1 /\ UNCHANGED qb_pc
    /\ UNCHANGED notQuery
    /\ UNCHANGED << psVars, tsVars, alt_outcomes, alt_has_start >>

\* The frame tree the text search runs on.  Frame a is a same-process child
\* of the root and shares its target; b, e, c and d have targets of their own.
SearchFrames == {"r", "a", "b", "e", "c", "d"}
SearchParent ==
    [r |-> << >>, a |-> << "r" >>, b |-> << "r" >>, e |-> << "r" >>,
     c |-> << "a" >>, d |-> << "b" >>]
SearchTarget ==
    [r |-> "tR", a |-> "tR", b |-> "tB", e |-> "tE", c |-> "tC", d |-> "tD"]

\* The orders in which child_frames() (frame_inner.rs lines 107-127) can
\* return the children of a frame: the DashSet iteration order is not fixed.
ChildOrders ==
    {order \in UNION {[1..k -> SearchFrames] : k \in 0..3} :
        \A i, j \in DOMAIN order : i # j => order[i] # order[j]}

\* find_by_text_everywhere, lines 179-192: the start frame is pushed.
TextSearchCall(all, matches) ==
    /\ qb_pc = "idle"
    /\ ts_all' = all
    /\ ts_matches' = matches
    /\ ts_stack' = << "r" >>
    /\ ts_frames' = {}
    /\ ts_targets' = {}
    /\ ts_order' = << >>
    /\ ts_nodes' = << >>
    /\ ts_failed' = FALSE
    /\ qb_pc' = "text"
    /\ ps_selector' = << >>
    /\ ps_steps' = << >>
    /\ alt_outcomes' = << >>
    /\ alt_has_start' = FALSE
    /\ alt_idx' = 0
    /\ alt_called' = {}
    /\ alt_result' = 0
    /\ UNCHANGED notQuery

\* One turn of `while let Some(current_frame) = frames_to_process.pop()`,
\* lines 194-240: Vec::pop takes the frame pushed last.  A frame whose target
\* or id is processed is skipped, and so is one whose DOM.getDocument fails;
\* otherwise the document of the frame's target is searched, the frame and
\* its target are marked and its child frames are pushed.
TextSearchStep(ok, order) ==
    /\ qb_pc = "text"
    /\ ts_stack # << >>
    /\ LET current_frame == ts_stack[Len(ts_stack)]
           rest == SubSeq(ts_stack, 1, Len(ts_stack) - 1)
           found == SearchTarget[current_frame] \in ts_matches
           children == {g \in SearchFrames : SearchParent[g] = << current_frame >>}
       IN /\ {order[i] : i \in DOMAIN order} = children
          /\ Len(order) = Cardinality(children)
          /\ IF SearchTarget[current_frame] \in ts_targets \/ current_frame \in ts_frames
                THEN /\ ok
                     /\ ts_stack' = rest
                     /\ UNCHANGED << ts_frames, ts_targets, ts_order, ts_nodes,
                                     ts_failed, qb_pc >>
                ELSE IF ~ok
                   THEN /\ ts_stack' = rest
                        /\ ts_failed' = TRUE
                        /\ UNCHANGED << ts_frames, ts_targets, ts_order, ts_nodes, qb_pc >>
                   ELSE /\ ts_order' = Append(ts_order, current_frame)
                        /\ ts_nodes' = IF found THEN Append(ts_nodes, current_frame)
                                                ELSE ts_nodes
                        /\ UNCHANGED ts_failed
                        /\ IF found /\ ~ts_all
                              THEN /\ qb_pc' = "text_returned"
                                   /\ UNCHANGED << ts_stack, ts_frames, ts_targets >>
                              ELSE /\ ts_targets' = ts_targets \cup {SearchTarget[current_frame]}
                                   /\ ts_frames' = ts_frames \cup {current_frame}
                                   /\ ts_stack' = rest \o order
                                   /\ UNCHANGED qb_pc
    /\ UNCHANGED notQuery
    /\ UNCHANGED << psVars, altVars, ts_all, ts_matches >>

\* Line 242: the stack is empty, Some(nodes) is returned.
TextSearchEnd ==
    /\ qb_pc = "text"
    /\ ts_stack = << >>
    /\ qb_pc' = "text_returned"
    /\ UNCHANGED notQuery
    /\ UNCHANGED << psVars, altVars, tsVars >>

\* The caller takes the result.  What the call left is kept until the next
\* call, which starts from fresh locals.
QueryReturn ==
    /\ qb_pc \in {"parsed", "returned", "text_returned"}
    /\ qb_pc' = "idle"
    /\ UNCHANGED notQuery
    /\ UNCHANGED << psVars, altVars, tsVars >>

NextQuery ==
    \/ \E selector \in Selectors(MaxSelectorLen) : ParseSelectorCall(selector)
    \/ \E has_start \in BOOLEAN : \E outcomes \in Queries(MaxAlternatives, has_start) :
          QueryCall(outcomes, has_start)
    \/ QueryAlternative
    \/ \E all \in BOOLEAN : \E matches \in SUBSET {"tR", "tB", "tC", "tD", "tE"} :
          TextSearchCall(all, matches)
    \/ \E ok \in BOOLEAN : \E order \in ChildOrders : TextSearchStep(ok, order)
    \/ TextSearchEnd
    \/ QueryReturn

-----------------------------------------------------------------------------
Init == InitConn /\ InitEvents /\ InitDom /\ InitTargets /\ InitNet /\ InitNav /\ InitSel /\ InitSettings /\ InitFrames /\ InitQuery

Next == NextConn

\* The Connection's request/response machine.
Spec == Init /\ [][Next]_vars

-----------------------------------------------------------------------------
\* C1: every send that got past the disconnecting check returns exactly one
\* outcome (a response, a timeout or a connection-closed error), it cannot
\* wait forever, and a response outcome carries the id allocated to the call.
C1_ExactlyOneOutcome ==
    \A c \in Callers :
        /\ pc[c] = "done" => Len(outcome[c]) = 1
        /\ pc[c] # "done" => outcome[c] = << >>
        /\ (pc[c] = "done" /\ outcome[c][1].kind # "disconnecting")
              => outcome[c][1].kind \in {"response", "timeout", "closed"}
        /\ (pc[c] = "done" /\ outcome[c][1].kind = "response")
              => outcome[c][1].resp = call_id[c]
        /\ pc[c] = "await"
              => ENABLED (SendAwaitResponse(c) \/ SendAwaitClosed(c) \/ SendTimeoutFire(c))

\* A response reached its caller while a call with a smaller id still waits.
C1_Witness ==
    \E c, d \in Callers :
        /\ pc[c] = "done" /\ outcome[c][1].kind = "response"
        /\ pc[d] = "await" /\ call_id[d][1] < call_id[c][1]

\* C5: request ids are unique and strictly increasing in allocation order.
C5_IdsStrictlyIncreasing ==
    /\ \A i, j \in 1..Len(allocated) : i < j => allocated[i] < allocated[j]
    /\ \A c, d \in Callers :
          (c # d /\ call_id[c] # << >> /\ call_id[d] # << >>
             /\ pc[c] \notin {"idle", "alloc"} /\ pc[d] \notin {"idle", "alloc"})
          => call_id[c] # call_id[d]

\* Two calls are in flight at once, both holding ids.
C5_Witness ==
    /\ Len(allocated) >= 2
    /\ \E c, d \in Callers : c # d /\ pc[c] = "await" /\ pc[d] = "register"

-----------------------------------------------------------------------------
\* The Connection's event fan-out.
SpecEvents == Init /\ [][NextEvents]_vars

\* The events dispatched so far that arrived after subscriber s subscribed and
\* that s's filter lets through, in wire order.
MatchingSince(s) ==
    SelectSeq([i \in 1..dispatched |-> i],
              LAMBDA i : i > sub_at[s] /\ Delivers(event_subscribers[s], wire[i]))

\* C4: on every dispatch of an event e, e is pushed to a registered subscriber
\* S with a live sink iff e.method is in S's method set and (S's session-id set
\* is empty or e carries a sessionId that is in it).
C4_DeliveredIffFilter ==
    [][ dispatched' = dispatched + 1 =>
          \A s \in DOMAIN event_subscribers :
              sub_alive[s] =>
                 LET e == wire[dispatched + 1]
                     sub == event_subscribers[s]
                 IN (sink'[s] = Append(sink[s], dispatched + 1))
                      <=> ( /\ e.method \in sub.methods
                            /\ \/ sub.session_ids = {}
                               \/ (e.session # << >> /\ e.session[1] \in sub.session_ids) )
      ]_vars

\* C6: a subscriber with a live receiver has received
\* exactly the matching events that arrived after it subscribed, in wire order.
C6_SuffixFromSubscribe ==
    \A s \in DOMAIN event_subscribers :
        sub_alive[s] => sink[s] = MatchingSince(s)

-----------------------------------------------------------------------------
\* DOM operations of concurrent tasks.
SpecDom == Init /\ [][NextDom]_vars

\* The tasks that hold a NodeId bound on target t and whose query has not
\* returned yet.
InQuerySequence(t) == {k \in DomTasks : dom_target[k] = t /\ dom_pc[k] = "bound"}

\* C2: on every target at most one DOM query sequence (bind, then the query
\* that uses the NodeId) is in flight: the sequences of two concurrent calls on
\* the same target never interleave.
C2_OneQuerySequencePerTarget ==
    \A t \in DomTargets : Cardinality(InQuerySequence(t)) <= 1

-----------------------------------------------------------------------------
\* The target manager's event handler and iframe channel handler.
SpecTargets == Init /\ [][NextTargets]_vars

\* Both tasks of the target manager are idle and the iframe channel is empty:
\* nothing is left that would drain pending_iframes.
TargetsQuiescent == tm_pc = "idle" /\ ch_pc = "idle" /\ iframe_channel = << >>

\* C3: no parked iframe stays in pending_iframes once its parent target is in
\* the targets index: when the manager has come to rest, every entry still
\* parked waits for a parent that is not attached.
C3_NoPendingUnderAttachedParent ==
    TargetsQuiescent =>
        \A key \in pending_iframes : key[1] \notin DOMAIN targets

-----------------------------------------------------------------------------
\* The network manager's event handler with its consumers.
SpecNet == Init /\ [][NextNet]_vars

\* The events the handler took for a registered session while the flag was
\* false and stayed false, and is done with.
HandledUnderFalseFlag(method) ==
    {r \in DOMAIN handled : /\ handled[r].method = method
                            /\ handled[r].registered
                            /\ handled[r].flag_false}

\* C7: every Fetch.requestPaused event, request stage or response stage, that
\* the manager handled for a registered session while the interception flag
\* was false has had a Fetch.continueRequest issued for its request id.
C7_PausedAlwaysContinued ==
    \A r \in HandledUnderFalseFlag("Fetch.requestPaused") :
        << "Fetch.continueRequest", r >> \in fetch_commands

\* C8: as long as a consumer of subscribe_to_requests still holds one of the
\* two streams it was given, the interception flag is true.
C8_FlagHeldWhileSubscribed ==
    \A c \in Consumers :
        (<< "requests", c >> \in streams \/ << "responses", c >> \in streams)
            => network_handler

\* C9: after interception has been enabled, whenever no subscription handle
\* is left alive the interception flag is false.
C9_AllDroppedFlagFalse ==
    (ever_intercepted /\ streams = {}) => ~network_handler

C9_Witness == ever_intercepted /\ streams = {} /\ ~network_handler

\* C10: every Fetch.authRequired event handled for a registered session while
\* the interception flag was false is answered with Fetch.continueWithAuth,
\* ProvideCredentials if credentials were stored and CancelAuth if not, is
\* sent on the request broadcast, and leaves the event handler running.
C10_AuthAnsweredAndLoopAlive ==
    /\ net_pc # "panicked"
    /\ \A r \in HandledUnderFalseFlag("Fetch.authRequired") :
          /\ << "Fetch.continueWithAuth", r,
                IF handled[r].had_credentials THEN "ProvideCredentials"
                                              ELSE "CancelAuth" >> \in fetch_commands
          /\ r \in request_sent

-----------------------------------------------------------------------------
\* C11: a target is in the targets index only if its Target::init returned
\* Ok (all four enables succeeded and its managers are set).
C11_IndexedOnlyIfInitOk ==
    \A t \in DOMAIN targets : targets[t].init_ok

\* C12: when the handling of a target's Target.targetCreated event looks the
\* target up in pending_targets while a create_target call for that target is
\* under way, the call's waiter is there and is given the target.
C12_WaiterFoundAndCompleted ==
    [][ \A c \in CreateCallers :
          ( /\ tm_pc = "waiter" /\ tm_pc' = "idle"
            /\ create_id[c] = tm_cur
            /\ create_pc[c] \in {"sent", "waiting"} )
          => (tm_cur \in pending_targets /\ create_got'[c]) ]_vars

C12_Witness ==
    \E c \in CreateCallers :
        create_pc[c] = "waiting" /\ create_got[c] /\ create_id[c] \in DOMAIN targets

-----------------------------------------------------------------------------
\* C13: once disconnect has returned, the waiters map is empty (and so stays
\* empty), whatever send calls run concurrently with it.
C13_NoWaitersAfterDisconnect ==
    disc_pc = "done" => DOMAIN response_waiters = {}

\* C14: when disconnect returns, the subscribers map is empty, so every
\* subscriber's sender is dropped and its receiver sees the channel closed.
C14_NoSubscribersAfterDisconnect ==
    [][ (disc_pc # "done" /\ disc_pc' = "done") => DOMAIN event_subscribers' = {} ]_vars

-----------------------------------------------------------------------------
\* The ids still in the writer's queue.
QueuedIds == {sender_queue[i] : i \in 1..Len(sender_queue)}

\* C15: a send that returns a timeout error has no entry left in the waiters
\* map, and a response whose id has no waiter (it timed out before) is
\* discarded: the waiters map, every caller's oneshot and every caller's
\* position and outcome stay as they were.
C15_TimeoutRemovesLateResponseDiscarded ==
    [][ /\ \A c \in Callers :
              (pc'[c] = "done" /\ outcome'[c] # << >> /\ outcome'[c][1].kind = "timeout")
                 => call_id'[c][1] \notin DOMAIN response_waiters'
        /\ \A id \in browser_pending :
              (id \notin browser_pending' /\ id \notin DOMAIN response_waiters)
                 => UNCHANGED << response_waiters, rx, rx_closed, pc, outcome >> ]_vars

\* A call has returned a timeout error, the response to its request came
\* after the entry was removed, and another send is still waiting with its
\* entry in the map.
C15_Witness ==
    \E c, d \in Callers :
        /\ pc[c] = "done" /\ outcome[c][1].kind = "timeout" /\ rx[c] = << >>
        /\ call_id[c][1] \notin browser_pending \cup QueuedIds
        /\ pc[d] = "await" /\ call_id[d][1] \in DOMAIN response_waiters

-----------------------------------------------------------------------------
\* C16: a send that starts while is_disconnecting is set returns the
\* disconnecting error and changes nothing: next_id, the waiters map, the
\* outbound queue and the allocation history stay as they were.
C16_SendWhileDisconnectingRejected ==
    [][ \A c \in Callers :
          (pc[c] = "idle" /\ pc'[c] # "idle" /\ is_disconnecting)
          => /\ pc'[c] = "done"
             /\ outcome'[c] = << [kind |-> "disconnecting", resp |-> << >>] >>
             /\ UNCHANGED << next_id, response_waiters, sender_queue, allocated,
                             browser_pending >> ]_vars

\* A send was turned away while disconnect is under way.
C16_Witness ==
    \E c \in Callers :
        /\ pc[c] = "done" /\ outcome[c][1].kind = "disconnecting"
        /\ is_disconnecting

-----------------------------------------------------------------------------
\* C17: a subscriber whose method set is empty is pushed no event, whatever
\* its session-id set and whatever events are dispatched.
C17_EmptyMethodSetGetsNothing ==
    \A s \in DOMAIN event_subscribers :
        event_subscribers[s].methods = {} => sink[s] = << >>

\* An event that arrived after a subscriber with an empty method set
\* subscribed has been dispatched.
C17_Witness ==
    \E s \in DOMAIN event_subscribers :
        /\ event_subscribers[s].methods = {}
        /\ sub_alive[s]
        /\ dispatched > sub_at[s]

-----------------------------------------------------------------------------
\* C18: a subscription whose receiver has been dropped does not stay in the
\* subscribers map whatever events arrive afterwards: once the dispatcher has
\* handled an event after the drop, the entry is gone.
C18_DetachedSubscriberRemoved ==
    [][ \A s \in DOMAIN event_subscribers :
          (~sub_alive[s] /\ dispatched' = dispatched + 1)
          => s \notin DOMAIN event_subscribers' ]_vars

-----------------------------------------------------------------------------
\* wait_for_navigation with its timer and the events its subscription is given.
SpecNav == Init /\ [][NextNav]_vars

\* C19: a wait_for_navigation call given a timeout of zero does not wait
\* longer than the frame's default timeout.
C19_ZeroTimeoutUsesDefault ==
    (nav_pc = "waiting" /\ nav_arg = << 0 >>) => nav_clock <= DefaultTimeoutTicks

-----------------------------------------------------------------------------
\* wait_for_selector with its helper task, the document and the signal bus.
SpecSel == Init /\ [][NextSel]_vars

\* The call waits for its helper, the selector matches, every notification the
\* browser sent has been broadcast, and the helper sits in recv() with nothing
\* to receive: only the timeout can end the call.
WakeupLost ==
    /\ sel_main = "wait"
    /\ sel_matches
    /\ sel_in_flight = 0
    /\ sel_helper = "recv"
    /\ sel_pending = 0
    /\ ~sel_lagged

\* C20: wait_for_selector loses no wake-up: when the selector has started to
\* match after the call began and the signal for that change has been
\* broadcast, the helper has a signal to receive, is querying, or has the
\* element.
C20_NoLostWakeup == ~WakeupLost

-----------------------------------------------------------------------------
\* The network manager's settings, their setters and add_session.
SpecSettings == Init /\ [][NextSettings]_vars

\* The last two header setters that returned Ok were set_extra_headers(H)
\* and then clear_extra_headers(), no setter has failed and no call is in
\* progress.
SetThenCleared ==
    /\ st_pc = "idle"
    /\ as_pc = "idle"
    /\ ~st_failed
    /\ Len(hdr_calls) >= 2
    /\ hdr_calls[Len(hdr_calls) - 1] = "set_extra_headers"
    /\ hdr_calls[Len(hdr_calls)] = "clear_extra_headers"

\* C21: after set_extra_headers(H) followed by clear_extra_headers(), both
\* successful, the stored header map is empty and the last
\* Network.setExtraHTTPHeaders sent to every registered session, if any was
\* sent, carries an empty map.
C21_SetThenClearIsDefault ==
    SetThenCleared =>
        /\ extra_headers = NoHeaders
        /\ \A s \in nm_session_ids : wire_headers[s] \in {<< >>, << NoHeaders >>}

\* C28: when add_session(s) returns Ok while no setter is running and none
\* has failed, s is registered for Fetch events and the last commands sent to
\* s carry the manager's current settings: the stored headers if any are
\* stored, cache disabled if it is, bypass if it is on.
C28_ReturnedSessionHasCurrentSettings ==
    [][ ( /\ as_pc = "return" /\ as_pc' = "idle"
          /\ st_pc = "idle" /\ ~st_failed )
        => ( /\ as_sess \in fetch_registered'
             /\ extra_headers' # NoHeaders
                   => wire_headers'[as_sess] = << extra_headers' >>
             /\ cache_disabled' => wire_cache'[as_sess] = << TRUE >>
             /\ bypass_service_worker' => wire_bypass'[as_sess] = << TRUE >> ) ]_vars

-----------------------------------------------------------------------------
\* Frames, targets, handles and shutdown.
SpecFrames == Init /\ [][NextFrames]_vars

\* C22: an operation through a Page or Element handle whose frame or target
\* no longer exists returns an error; it never panics.
C22_DanglingHandleReturnsError == fr_result # "panic"

\* The handler of targetDestroyed / targetCrashed for t has just run.
GoneHandled(t) == gone_kind[t] = "none" /\ gone_kind'[t] # "none"

\* C23: when the destruction or crash of an indexed target is handled, its
\* managers' event loops are shut down if and only if the target is
\* top-level, whatever operations hold the target.
C23_ManagersShutIffTopLevel ==
    [][ \A t \in TargetIds :
          (GoneHandled(t) /\ t \in DOMAIN targets)
          => ( (ManagersOf(t) \in managers_shut' \ managers_shut)
               <=> TargetType[t] # "iframe" ) ]_vars

\* Frame f is in neither the frames index nor its parent frame's child set.
FrameGone(frames, f) ==
    /\ f \notin DOMAIN frames
    /\ (FrameParentOf[f] # << >> /\ FrameParentOf[f][1] \in DOMAIN frames)
          => f \notin frames[FrameParentOf[f][1]].child_frame_ids

\* C24: after targetDestroyed or targetCrashed for T has been handled, T is
\* absent from the targets index, from the frames index and from its parent
\* frame's child set; after frameDetached for a frame that is not its own
\* target, the frame is absent from the frames index and from its parent's
\* child set.
C24_GoneEntitiesRemoved ==
    [][ /\ \A t \in TargetIds :
              GoneHandled(t) => (t \notin DOMAIN targets' /\ FrameGone(frame_inners', t))
        /\ ( /\ tm_events' = tm_events + 1
             /\ fr_last'.kind = "frameDetached"
             /\ ~fr_last'.indexed )
           => FrameGone(frame_inners', fr_last'.id) ]_vars

\* The target frame f has to be bound to after frameAttached: the target with
\* f's id if there is one, else the target that owns the parent frame.
ExpectedTarget(f) ==
    IF f \in DOMAIN targets THEN << f >>
    ELSE IF FrameParentOf[f][1] \in DOMAIN frame_inners
            THEN << frame_inners[FrameParentOf[f][1]].target >>
            ELSE << >>

\* C25: after a frameAttached event for f has been handled successfully, and
\* the parent frame is known, a FrameInner for f exists, bound to the target
\* with f's id if there is one and else to the target that owns the parent
\* frame, and f is in the parent frame's child set.
C25_AttachedFrameIndexed ==
    [][ \A f \in FrameIds :
          ( /\ tm_events' = tm_events + 1
            /\ fr_last' = [kind |-> "frameAttached", id |-> f, ok |-> TRUE,
                           indexed |-> FALSE]
            /\ ExpectedTarget(f) # << >> )
          => ( /\ f \in DOMAIN frame_inners'
               /\ frame_inners'[f].target = ExpectedTarget(f)[1]
               /\ f \in frame_inners'[FrameParentOf[f][1]].child_frame_ids ) ]_vars

\* C26: a frame bound to its own target has no backendNodeId, whatever frame
\* or target events have been handled.
C26_OwnTargetFrameHasNoBackendNode ==
    \A f \in DOMAIN frame_inners :
        frame_inners[f].target = f => ~frame_inners[f].backend_node_id

\* C27: whatever the outcome of Fetch.getResponseBody (result, protocol error
\* or no answer), the handling of a response-stage requestPaused event on a
\* registered session goes on to deliver the Response to the response
\* broadcast.
C27_BodyOutcomeNeverPreventsDelivery ==
    [][ (net_pc = "body" /\ net_pc' # "body")
        => (net_cur.id \in response_sent' \/ net_pc' = "continue_response") ]_vars

\* C29: navigate returns success only if the browser answered Page.navigate
\* with a result and the lifecycle wait completed.
C29_NavigateOkOnlyIfBothOk == nav_final = "ok" => nav_send = "result"

\* Name is at or after the event of waitUntil option w in the canonical
\* order.
AtOrAfter(name, w) ==
    \E i, j \in 1..Len(lifecycle_event_order) :
        /\ lifecycle_event_order[i] = lifecycle_event_map[w]
        /\ lifecycle_event_order[j] = name
        /\ j >= i

\* C30: a lifecycle event taken while wait_for_navigation waits completes it
\* successfully if and only if it is for this frame and its name is at or
\* after the event of the waitUntil option in the order [init, load,
\* DOMContentLoaded, networkAlmostIdle, networkIdle]; an unknown waitUntil is
\* rejected with no subscription created.
C30_CompletesOnFirstQualifyingEvent ==
    [][ /\ ( /\ nav_pc = "waiting"
             /\ nav_events' = nav_events + 1
             /\ nav_last'.kind = "lifecycleEvent" )
           => ( (nav_pc' = "done" /\ nav_result' = "ok")
                <=> ( /\ nav_last'.frame = "this"
                      /\ AtOrAfter(nav_last'.name, nav_wait_until) ) )
        /\ nav_result' = "unknown_wait_until" => ~nav_subscribed' ]_vars

\* A wait for networkidle0 has been completed by a networkIdle event of this
\* frame, after an event that did not qualify.
C30_Witness ==
    /\ nav_pc = "done"
    /\ nav_result = "ok"
    /\ nav_wait_until = "networkidle0"
    /\ nav_last = [kind |-> "lifecycleEvent", frame |-> "this", name |-> "networkIdle",
                   loader |-> "navigation"]
    /\ nav_events = 2

\* C34: a create_page call does not stay blocked: once the event handler has
\* finished with the targetCreated event of the target the call waits for,
\* the call has been released and its waiter is out of pending_targets, also
\* when the handling failed.
C34_CallerReleasedWhenHandlingEnds ==
    \A c \in CreateCallers :
        ( /\ create_pc[c] = "waiting"
          /\ create_id[c] \in browser_targets
          /\ tm_cur # create_id[c] )
        => create_got[c] /\ create_id[c] \notin pending_targets

\* C35: whenever the target manager is idle between two events, every
\* FrameInner in the frames index is bound to a target that is in the
\* targets index.
C35_IndexedFramesHaveIndexedTargets ==
    (tm_pc = "idle" /\ ch_pc = "idle")
    => \A f \in DOMAIN frame_inners : frame_inners[f].target \in DOMAIN targets

\* C36: the pending-iframe reconciliation task never fails while draining an
\* entry: the unwraps of the parent target and of the parent's FrameInner
\* find them.
C36_ChannelHandlerNeverPanics == ch_pc # "panicked"

\* C40: a FrameInner in the frames index is not replaced by the handling of a
\* frameAttached or targetCreated event: a handle that refers to it stays
\* valid until its frame is detached or its target is gone, and such an
\* event takes no child out of its child set.
C40_IndexedFrameNeverReplaced ==
    [][ /\ (fr_valid /\ ~fr_valid')
           => fr_last'.kind \in {"frameDetached", "targetDestroyed", "targetCrashed"}
        /\ (tm_events' # tm_events /\ fr_last'.kind = "frameAttached")
           => \A f \in DOMAIN frame_inners \cap DOMAIN frame_inners' :
                 frame_inners[f].child_frame_ids \subseteq frame_inners'[f].child_frame_ids
      ]_vars

\* C37: when one set_extra_headers(H) and add_session(s) have both returned
\* Ok, in whichever order, the last Network.setExtraHTTPHeaders sent to s
\* carries H.  With no other setter called, add_session cannot have failed
\* if it read an empty map (it then sends nothing); if it read H it either
\* sent H or failed.
C37_ConcurrentSetAndAddLeaveHeaders ==
    ( /\ st_pc = "idle" /\ as_pc = "idle" /\ ~st_failed
      /\ st_calls = 1 /\ hdr_calls = << "set_extra_headers" >>
      /\ as_sess # "none" /\ as_headers = NoHeaders )
    => wire_headers[as_sess] = << extra_headers >>

\* C39: navigate returns success only after a lifecycle event of the
\* navigation it started; an event of the previously loaded document never
\* completes the wait.
C39_OkOnlyAfterEventOfStartedNavigation ==
    nav_final = "ok" => nav_last.loader = "navigation"

-----------------------------------------------------------------------------
\* The query builder: parser, alternatives and text search.
SpecQuery == Init /\ [][NextQuery]_vars

\* The alternative that yields a node first, 0 if none does.
FirstYielding(outcomes) ==
    IF \E i \in DOMAIN outcomes : outcomes[i] = "node"
       THEN CHOOSE i \in DOMAIN outcomes :
               outcomes[i] = "node" /\ \A j \in 1..(i - 1) : outcomes[j] # "node"
       ELSE 0

\* C31: a comma-separated query returns the node of the first alternative
\* that yields a node, whatever the alternatives before it met, and no CDP
\* call is made for an alternative after it.
C31_FirstYieldingAlternativeWins ==
    qb_pc = "returned" =>
        /\ alt_result = FirstYielding(alt_outcomes)
        /\ alt_result # 0 => \A i \in alt_called : i <= alt_result

\* The steps the selector has when it is split at the piercers only: a run of
\* exactly three or four '>' is a piercer, any other '>' stays in the CSS
\* fragment.
RECURSIVE SplitFrom(_, _, _, _)
SplitFrom(selector, i, current, steps) ==
    IF i > Len(selector) THEN PushCss(steps, current)
    ELSE IF selector[i] = ">" /\ RunLength(selector, i) \in {3, 4}
       THEN SplitFrom(selector, i + RunLength(selector, i), << >>,
                      Append(PushCss(steps, current),
                             [kind |-> IF RunLength(selector, i) = 3
                                          THEN "ShadowRootDeep" ELSE "ShadowRootDirect",
                              css |-> << >>]))
       ELSE IF selector[i] = ">"
          THEN SplitFrom(selector, i + RunLength(selector, i),
                         current \o SubSeq(selector, i, i + RunLength(selector, i) - 1),
                         steps)
          ELSE SplitFrom(selector, i + 1, Append(current, selector[i]), steps)

\* C32: parse_selector_path splits a selector at the shadow-root piercers
\* only: three '>' give a deep step, four a direct step, and what lies
\* between two piercers, a single '>' included, is one CSS step.  Stated for
\* the selectors that begin and end with a name character.
C32_SplitOnlyAtPiercers ==
    ( /\ qb_pc = "parsed"
      /\ ps_selector # << >>
      /\ Head(ps_selector) = "a"
      /\ ps_selector[Len(ps_selector)] = "a" )
    => ps_steps = SplitFrom(ps_selector, 1, << >>, << >>)

RECURSIVE SearchDepth(_)
SearchDepth(f) == IF SearchParent[f] = << >> THEN 0 ELSE 1 + SearchDepth(SearchParent[f][1])

\* C33: the text search visits the frames breadth-first, each frame and each
\* target at most once, and unless it stopped at a match or a request
\* failed it has searched the target of every descendant frame; the single
\* variant returns the first match in that order, the all variant the matches
\* of every visited frame.
C33_TextSearchBreadthFirst ==
    qb_pc = "text_returned" =>
        /\ \A i, j \in DOMAIN ts_order :
              i < j => /\ SearchDepth(ts_order[i]) <= SearchDepth(ts_order[j])
                       /\ SearchTarget[ts_order[i]] # SearchTarget[ts_order[j]]
        /\ (~ts_failed /\ (ts_all \/ ts_nodes = << >>))
              => \A f \in SearchFrames :
                    \E i \in DOMAIN ts_order : SearchTarget[ts_order[i]] = SearchTarget[f]
        /\ \A i \in DOMAIN ts_nodes : SearchTarget[ts_nodes[i]] \in ts_matches
        /\ ~ts_all => Len(ts_nodes) <= 1

\* C38: no request paused on a session whose Fetch.enable succeeded is lost
\* because the session was not yet registered with the network manager: every
\* such Fetch.requestPaused event has been answered with a Fetch command or
\* handed to a consumer.
C38_NoPausedRequestLostBeforeRegistration ==
    \A r \in DOMAIN handled :
        (handled[r].method = "Fetch.requestPaused" /\ ~handled[r].registered)
        => \/ \E cmd \in fetch_commands : cmd[2] = r
           \/ r \in request_sent \cup response_sent

====
